---- MODULE Spec2Model ----
(***************************************************************************)
(* Model of extras/parse_travis_log.py: the scanners that read the Travis  *)
(* CI build log line by line, the exit code computed from their results,   *)
(* the report rendered from them, and the run of the script as a whole.    *)
(*                                                                         *)
(* A log is a sequence of lines.  A line is a sequence of lexemes (the     *)
(* message numbers, file names, punctuation and phrases the script looks   *)
(* for), written one after the other and separated by single blanks (a     *)
(* lexeme that starts with a colon follows the one before it directly),    *)
(* the newline coming right after the last lexeme.  Python's `x in line`   *)
(* is membership of the lexeme in the line; the split/find expressions of  *)
(* the script are computed on the lexeme sequence.                         *)
(*                                                                         *)
(* A Python value that may be None is a sequence of length at most one:    *)
(* None is <<>>, the value x is <<x>>.                                     *)
(***************************************************************************)
EXTENDS Integers, Sequences, FiniteSets, TLC

VARIABLES log, pairscan, vera, cppcheck, format, pep8, makebuild, testsuite, rc,
          changed, printable, main, firstrun

vars == <<log, pairscan, vera, cppcheck, format, pep8, makebuild, testsuite, rc,
          changed, printable, main, firstrun>>

\* Longest log that is scanned.
MaxLogLen == 4

\* Largest count stored in a message table handed to build_return_code.
MaxCount == 1
MaxDeviations == 2

None == <<>>
Some(x) == <<x>>
Val(o) == o[1]

\* Python truth value of a status that is True, False or None.
Truthy(v) == v = Some(TRUE)

Tristate == {None, Some(FALSE), Some(TRUE)}

\* All logs of at most MaxLogLen lines drawn from the set of lines L.
Logs(L) == UNION {[1..n -> L] : n \in 0..MaxLogLen}

\* A function that has not been called.
Idle == [pc |-> "idle"]

\* `msg_number in line`
is_message(line, msg_number) == \E k \in DOMAIN line : line[k] = msg_number

\* Python dictionaries: d[k] = v, and d.get(k, dflt).
EmptyDict == [x \in {} |-> 0]
DictSet(d, k, v) == [x \in (DOMAIN d) \cup {k} |-> IF x = k THEN v ELSE d[x]]
DictGet(d, k, dflt) == IF k \in DOMAIN d THEN d[k] ELSE dflt

RECURSIVE SumOver(_, _)
SumOver(f, S) ==
    IF S = {} THEN 0
    ELSE LET x == CHOOSE y \in S : TRUE IN f[x] + SumOver(f, S \ {x})

(***************************************************************************)
(* is_message_pair_in_logfile                                              *)
(***************************************************************************)

\* The marker pairs the script passes to is_message_pair_in_logfile.
PairCalls ==
    { <<"MSGBLD0070", "MSGBLD0100">>,
      <<"MSGBLD0010", "MSGBLD0020">>,
      <<"MSGBLD0030", "MSGBLD0040">>,
      <<"MSGBLD0050", "MSGBLD0060">>,
      <<"MSGBLD0230", "MSGBLD0240">>,
      <<"MSGBLD0270", "MSGBLD0280">> }

PairLines(s, e) == { <<s>>, <<e>>, <<s, e>>, <<"text">> }

\* Mutant: the start marker completes the pair at once.
is_message_pair_line_StartCompletes(pair_found, line, msg_start_of_section, msg_end_of_section) ==
    LET p1 == IF pair_found = None /\ is_message(line, msg_start_of_section)
              THEN Some(TRUE) ELSE pair_found
    IN  IF ~Truthy(p1) /\ is_message(line, msg_end_of_section)
        THEN Some(TRUE) ELSE p1

\* Mutant: every start marker reopens the section.
is_message_pair_line_StartReopens(pair_found, line, msg_start_of_section, msg_end_of_section) ==
    LET p1 == IF is_message(line, msg_start_of_section)
              THEN Some(FALSE) ELSE pair_found
    IN  IF ~Truthy(p1) /\ is_message(line, msg_end_of_section)
        THEN Some(TRUE) ELSE p1

\* The body of the loop over the lines: the new value of pair_found.
is_message_pair_line(pair_found, line, msg_start_of_section, msg_end_of_section) ==
    LET p1 == IF pair_found = None /\ is_message(line, msg_start_of_section)
              THEN Some(FALSE) ELSE pair_found
    IN  IF ~Truthy(p1) /\ is_message(line, msg_end_of_section)
        THEN Some(TRUE) ELSE p1

PairInit(s, e) ==
    [pc |-> "scan", i |-> 1, msg_start_of_section |-> s,
     msg_end_of_section |-> e, pair_found |-> None]

PairStep ==
    /\ pairscan.pc = "scan"
    /\ pairscan.i <= Len(log)
    /\ pairscan' = [pairscan EXCEPT
            !.pair_found = is_message_pair_line(pairscan.pair_found, log[pairscan.i],
                                                pairscan.msg_start_of_section,
                                                pairscan.msg_end_of_section),
            !.i = @ + 1]
    /\ UNCHANGED <<firstrun, log, vera, cppcheck, format, pep8, makebuild, testsuite, rc,
                 changed, printable, main>>

PairReturn ==
    /\ pairscan.pc = "scan"
    /\ pairscan.i > Len(log)
    /\ pairscan' = [pairscan EXCEPT !.pc = "done"]
    /\ UNCHANGED <<firstrun, log, vera, cppcheck, format, pep8, makebuild, testsuite, rc,
                 changed, printable, main>>

InitPair ==
    /\ \E c \in PairCalls :
          /\ pairscan = PairInit(c[1], c[2])
          /\ log \in Logs(PairLines(c[1], c[2]))
    /\ vera = Idle /\ cppcheck = Idle /\ format = Idle /\ pep8 = Idle
    /\ makebuild = Idle /\ testsuite = Idle /\ rc = Idle
    /\ changed = Idle /\ printable = Idle /\ main = Idle
    /\ firstrun = None

NextPair == PairStep \/ PairReturn

SpecPair == InitPair /\ [][NextPair]_vars


(***************************************************************************)
(* Text of a line                                                          *)
(***************************************************************************)

\* Lexemes that hold a colon; each of them ends with it.
HasColon(lexeme) ==
    lexeme \in {":", ": error:", ": warning:", "Total number of tests:"}

\* Lexemes that start with an opening parenthesis.
HasParen(lexeme) == lexeme \in {"(error)", "(style)", "(information)"}

\* The last blank-separated word of a lexeme.
LastWordOf(lexeme) ==
    CASE lexeme = ": error:" -> "error:"
      [] lexeme = ": warning:" -> "warning:"
      [] lexeme = "is never used" -> "used"
      [] lexeme = "NEST Testsuite Summary" -> "Summary"
      [] lexeme = "Total number of tests:" -> "tests:"
      [] OTHER -> lexeme

SetMax(S) == CHOOSE x \in S : \A y \in S : y <= x
SetMin(S) == CHOOSE x \in S : \A y \in S : x <= y

\* line.split(' ')[-1].strip(), for a line that holds a lexeme.
LastWord(line) == LastWordOf(line[Len(line)])

\* line.split(":")[-1].strip(): the text after the last colon, the whole
\* line when it holds no colon.
AfterLastColon(line) ==
    LET C == {k \in DOMAIN line : HasColon(line[k])}
    IN  IF C = {} THEN line ELSE SubSeq(line, SetMax(C) + 1, Len(line))

\* line[line.find('('):].strip(): the text from the first parenthesis on.
\* Without a parenthesis find() is -1 and the slice is the last character
\* of the line, its newline, which strip() removes.
FromFirstParen(line) ==
    LET P == {k \in DOMAIN line : HasParen(line[k])}
    IN  IF P = {} THEN <<>> ELSE SubSeq(line, SetMin(P), Len(line))

(***************************************************************************)
(* msg_summary_vera, msg_summary_cppcheck, msg_summary_format,             *)
(* msg_summary_pep8                                                        *)
(***************************************************************************)

\* Mutant: a start marker inside an open section opens a section as well.
msg_summary_vera_line_NestedStart(st, line, msg_vera_section_start, msg_vera_section_end, msg_vera) ==
    IF is_message(line, msg_vera_section_start)
    THEN LET source_filename == LastWord(line)
             all == IF st.all_vera_msgs = None THEN EmptyDict ELSE Val(st.all_vera_msgs)
         IN  [st EXCEPT !.in_a_vera_section = TRUE,
                        !.source_filename = source_filename,
                        !.all_vera_msgs = Some(DictSet(all, source_filename, EmptyDict))]
    ELSE IF st.in_a_vera_section
    THEN IF is_message(line, msg_vera)
         THEN LET message == AfterLastColon(line)
                  single == Val(st.all_vera_msgs)[st.source_filename]
              IN  [st EXCEPT !.all_vera_msgs =
                      Some(DictSet(Val(@), st.source_filename,
                                   DictSet(single, message, DictGet(single, message, 0) + 1)))]
         ELSE IF is_message(line, msg_vera_section_end)
         THEN [st EXCEPT !.in_a_vera_section = FALSE]
         ELSE st
    ELSE st

\* The body of the loop over the lines of msg_summary_vera.  single_file_vera_msgs
\* is the dictionary stored under source_filename in all_vera_msgs: both are
\* assigned together, so the increment is made in all_vera_msgs[source_filename].
msg_summary_vera_line(st, line, msg_vera_section_start, msg_vera_section_end, msg_vera) ==
    IF ~st.in_a_vera_section /\ is_message(line, msg_vera_section_start)
    THEN LET source_filename == LastWord(line)
             all == IF st.all_vera_msgs = None THEN EmptyDict ELSE Val(st.all_vera_msgs)
         IN  [st EXCEPT !.in_a_vera_section = TRUE,
                        !.source_filename = source_filename,
                        !.all_vera_msgs = Some(DictSet(all, source_filename, EmptyDict))]
    ELSE IF st.in_a_vera_section
    THEN IF is_message(line, msg_vera)
         THEN LET message == AfterLastColon(line)
                  single == Val(st.all_vera_msgs)[st.source_filename]
              IN  [st EXCEPT !.all_vera_msgs =
                      Some(DictSet(Val(@), st.source_filename,
                                   DictSet(single, message, DictGet(single, message, 0) + 1)))]
         ELSE IF is_message(line, msg_vera_section_end)
         THEN [st EXCEPT !.in_a_vera_section = FALSE]
         ELSE st
    ELSE st

\* Mutant: the test for 'is never used' is missing.
msg_summary_cppcheck_line_NoNeverUsedFilter(st, line, msg_cppcheck_section_start, msg_cppcheck_section_end, msg_cppcheck) ==
    IF ~st.in_a_cppcheck_section /\ is_message(line, msg_cppcheck_section_start)
    THEN LET source_filename == LastWord(line)
             all == IF st.all_cppcheck_msgs = None THEN EmptyDict ELSE Val(st.all_cppcheck_msgs)
         IN  [st EXCEPT !.in_a_cppcheck_section = TRUE,
                        !.source_filename = source_filename,
                        !.all_cppcheck_msgs = Some(DictSet(all, source_filename, EmptyDict))]
    ELSE IF st.in_a_cppcheck_section
    THEN IF is_message(line, msg_cppcheck)
         THEN LET message == FromFirstParen(line)
                  single == Val(st.all_cppcheck_msgs)[st.source_filename]
              IN  IF is_message(line, "Checking") THEN st
                  ELSE IF is_message(message, "(information)") THEN st
                  ELSE [st EXCEPT !.all_cppcheck_msgs =
                          Some(DictSet(Val(@), st.source_filename,
                                       DictSet(single, message, DictGet(single, message, 0) + 1)))]
         ELSE IF is_message(line, msg_cppcheck_section_end)
         THEN [st EXCEPT !.in_a_cppcheck_section = FALSE]
         ELSE st
    ELSE st

\* The body of the loop over the lines of msg_summary_cppcheck.
\* single_file_cppcheck_msgs is the dictionary stored under source_filename
\* in all_cppcheck_msgs.
msg_summary_cppcheck_line(st, line, msg_cppcheck_section_start, msg_cppcheck_section_end, msg_cppcheck) ==
    IF ~st.in_a_cppcheck_section /\ is_message(line, msg_cppcheck_section_start)
    THEN LET source_filename == LastWord(line)
             all == IF st.all_cppcheck_msgs = None THEN EmptyDict ELSE Val(st.all_cppcheck_msgs)
         IN  [st EXCEPT !.in_a_cppcheck_section = TRUE,
                        !.source_filename = source_filename,
                        !.all_cppcheck_msgs = Some(DictSet(all, source_filename, EmptyDict))]
    ELSE IF st.in_a_cppcheck_section
    THEN IF is_message(line, msg_cppcheck)
         THEN LET message == FromFirstParen(line)
                  single == Val(st.all_cppcheck_msgs)[st.source_filename]
              IN  IF is_message(line, "Checking") THEN st
                  ELSE IF is_message(message, "is never used") THEN st
                  ELSE IF is_message(message, "(information)") THEN st
                  ELSE [st EXCEPT !.all_cppcheck_msgs =
                          Some(DictSet(Val(@), st.source_filename,
                                       DictSet(single, message, DictGet(single, message, 0) + 1)))]
         ELSE IF is_message(line, msg_cppcheck_section_end)
         THEN [st EXCEPT !.in_a_cppcheck_section = FALSE]
         ELSE st
    ELSE st

\* The body of the loop over the lines of msg_summary_format.  single_file_format_msgs
\* is the dictionary stored under source_filename in all_format_msgs: both are
\* assigned together, so the increment is made in all_format_msgs[source_filename].
msg_summary_format_line(st, line, msg_format_section_start, msg_format_section_end, msg_format) ==
    IF ~st.in_a_format_section /\ is_message(line, msg_format_section_start)
    THEN LET source_filename == LastWord(line)
             all == IF st.all_format_msgs = None THEN EmptyDict ELSE Val(st.all_format_msgs)
         IN  [st EXCEPT !.in_a_format_section = TRUE,
                        !.source_filename = source_filename,
                        !.all_format_msgs = Some(DictSet(all, source_filename, EmptyDict))]
    ELSE IF st.in_a_format_section
    THEN IF is_message(line, msg_format)
         THEN LET diffline == AfterLastColon(line)
                  single == Val(st.all_format_msgs)[st.source_filename]
              IN  [st EXCEPT !.all_format_msgs =
                      Some(DictSet(Val(@), st.source_filename,
                                   DictSet(single, diffline, DictGet(single, diffline, 0) + 1)))]
         ELSE IF is_message(line, msg_format_section_end)
         THEN [st EXCEPT !.in_a_format_section = FALSE]
         ELSE st
    ELSE st

\* Mutant: the entry of the file is made only together with the table, so
\* a later section adds no entry; its messages are counted in a dictionary
\* the table does not hold.
msg_summary_pep8_line_EntryOnlyWithTable(st, line, msg_pep8_section_start, msg_pep8_section_end, msg_pep8) ==
    IF ~st.in_a_pep8_section /\ is_message(line, msg_pep8_section_start)
    THEN LET source_filename == LastWord(line)
         IN  [st EXCEPT !.in_a_pep8_section = TRUE,
                        !.source_filename = source_filename,
                        !.all_pep8_msgs =
                            IF @ = None
                            THEN Some(DictSet(EmptyDict, source_filename, EmptyDict))
                            ELSE @]
    ELSE IF st.in_a_pep8_section
    THEN IF is_message(line, msg_pep8)
         THEN LET message == AfterLastColon(line)
                  single == DictGet(Val(st.all_pep8_msgs), st.source_filename, EmptyDict)
              IN  IF st.source_filename \in DOMAIN Val(st.all_pep8_msgs)
                  THEN [st EXCEPT !.all_pep8_msgs =
                          Some(DictSet(Val(@), st.source_filename,
                                       DictSet(single, message, DictGet(single, message, 0) + 1)))]
                  ELSE st
         ELSE IF is_message(line, msg_pep8_section_end)
         THEN [st EXCEPT !.in_a_pep8_section = FALSE]
         ELSE st
    ELSE st

\* The body of the loop over the lines of msg_summary_pep8.  single_file_pep8_msgs
\* is the dictionary stored under source_filename in all_pep8_msgs: both are
\* assigned together, so the increment is made in all_pep8_msgs[source_filename].
msg_summary_pep8_line(st, line, msg_pep8_section_start, msg_pep8_section_end, msg_pep8) ==
    IF ~st.in_a_pep8_section /\ is_message(line, msg_pep8_section_start)
    THEN LET source_filename == LastWord(line)
             all == IF st.all_pep8_msgs = None THEN EmptyDict ELSE Val(st.all_pep8_msgs)
         IN  [st EXCEPT !.in_a_pep8_section = TRUE,
                        !.source_filename = source_filename,
                        !.all_pep8_msgs = Some(DictSet(all, source_filename, EmptyDict))]
    ELSE IF st.in_a_pep8_section
    THEN IF is_message(line, msg_pep8)
         THEN LET message == AfterLastColon(line)
                  single == Val(st.all_pep8_msgs)[st.source_filename]
              IN  [st EXCEPT !.all_pep8_msgs =
                      Some(DictSet(Val(@), st.source_filename,
                                   DictSet(single, message, DictGet(single, message, 0) + 1)))]
         ELSE IF is_message(line, msg_pep8_section_end)
         THEN [st EXCEPT !.in_a_pep8_section = FALSE]
         ELSE st
    ELSE st

\* Mutant: the table starts as an empty dictionary instead of None.
VeraInit_EmptyTable ==
    [pc |-> "scan", i |-> 1, all_vera_msgs |-> Some(EmptyDict),
     in_a_vera_section |-> FALSE, source_filename |-> ""]

VeraInit ==
    [pc |-> "scan", i |-> 1, all_vera_msgs |-> None,
     in_a_vera_section |-> FALSE, source_filename |-> ""]

\* One line of the log read by msg_summary_vera, called as at line 945.
VeraStep ==
    /\ vera.pc = "scan"
    /\ vera.i <= Len(log)
    /\ vera' = [msg_summary_vera_line(vera, log[vera.i],
                      "MSGBLD0130", "MSGBLD0140", "MSGBLD0135")
                  EXCEPT !.i = @ + 1]
    /\ UNCHANGED <<firstrun, log, pairscan, cppcheck, format, pep8, makebuild, testsuite, rc,
                 changed, printable, main>>

\* End of the log: msg_summary_vera returns all_vera_msgs.
VeraReturn ==
    /\ vera.pc = "scan"
    /\ vera.i > Len(log)
    /\ vera' = [vera EXCEPT !.pc = "done"]
    /\ UNCHANGED <<firstrun, log, pairscan, cppcheck, format, pep8, makebuild, testsuite, rc,
                 changed, printable, main>>

CppcheckInit ==
    [pc |-> "scan", i |-> 1, all_cppcheck_msgs |-> None,
     in_a_cppcheck_section |-> FALSE, source_filename |-> ""]

\* Mutant: msg_summary_cppcheck reads the line at the position of
\* msg_summary_vera while that scan is under way.
CppcheckStep_SharedPosition ==
    /\ cppcheck.pc = "scan"
    /\ cppcheck.i <= Len(log)
    /\ LET k == IF vera.pc = "scan" /\ vera.i <= Len(log) THEN vera.i ELSE cppcheck.i
       IN  cppcheck' = [msg_summary_cppcheck_line(cppcheck, log[k],
                            "MSGBLD0150", "MSGBLD0160", "MSGBLD0155")
                        EXCEPT !.i = @ + 1]
    /\ UNCHANGED <<firstrun, log, pairscan, vera, format, pep8, makebuild, testsuite, rc,
                 changed, printable, main>>

\* One line of the log read by msg_summary_cppcheck, called as at line 948.
CppcheckStep ==
    /\ cppcheck.pc = "scan"
    /\ cppcheck.i <= Len(log)
    /\ cppcheck' = [msg_summary_cppcheck_line(cppcheck, log[cppcheck.i],
                      "MSGBLD0150", "MSGBLD0160", "MSGBLD0155")
                  EXCEPT !.i = @ + 1]
    /\ UNCHANGED <<firstrun, log, pairscan, vera, format, pep8, makebuild, testsuite, rc,
                 changed, printable, main>>

\* End of the log: msg_summary_cppcheck returns all_cppcheck_msgs.
CppcheckReturn ==
    /\ cppcheck.pc = "scan"
    /\ cppcheck.i > Len(log)
    /\ cppcheck' = [cppcheck EXCEPT !.pc = "done"]
    /\ UNCHANGED <<firstrun, log, pairscan, vera, format, pep8, makebuild, testsuite, rc,
                 changed, printable, main>>

FormatInit ==
    [pc |-> "scan", i |-> 1, all_format_msgs |-> None,
     in_a_format_section |-> FALSE, source_filename |-> ""]

\* One line of the log read by msg_summary_format, called as at line 951.
FormatStep ==
    /\ format.pc = "scan"
    /\ format.i <= Len(log)
    /\ format' = [msg_summary_format_line(format, log[format.i],
                      "MSGBLD0170", "MSGBLD0180", "MSGBLD0175")
                  EXCEPT !.i = @ + 1]
    /\ UNCHANGED <<firstrun, log, pairscan, vera, cppcheck, pep8, makebuild, testsuite, rc,
                 changed, printable, main>>

\* End of the log: msg_summary_format returns all_format_msgs.
FormatReturn ==
    /\ format.pc = "scan"
    /\ format.i > Len(log)
    /\ format' = [format EXCEPT !.pc = "done"]
    /\ UNCHANGED <<firstrun, log, pairscan, vera, cppcheck, pep8, makebuild, testsuite, rc,
                 changed, printable, main>>

Pep8Init ==
    [pc |-> "scan", i |-> 1, all_pep8_msgs |-> None,
     in_a_pep8_section |-> FALSE, source_filename |-> ""]

\* One line of the log read by msg_summary_pep8, called as at line 954.
Pep8Step ==
    /\ pep8.pc = "scan"
    /\ pep8.i <= Len(log)
    /\ pep8' = [msg_summary_pep8_line(pep8, log[pep8.i],
                      "MSGBLD0190", "MSGBLD0200", "MSGBLD0195")
                  EXCEPT !.i = @ + 1]
    /\ UNCHANGED <<firstrun, log, pairscan, vera, cppcheck, format, makebuild, testsuite, rc,
                 changed, printable, main>>

\* End of the log: msg_summary_pep8 returns all_pep8_msgs.
Pep8Return ==
    /\ pep8.pc = "scan"
    /\ pep8.i > Len(log)
    /\ pep8' = [pep8 EXCEPT !.pc = "done"]
    /\ UNCHANGED <<firstrun, log, pairscan, vera, cppcheck, format, makebuild, testsuite, rc,
                 changed, printable, main>>

\* Lines of a log with the sections of VERA++, clang-format or PEP8.
PerFileLines(s, e, m) ==
    { <<s, "a.cpp">>, <<s, "b.cpp">>, <<m, ":", "m1">>, <<m, ":", "m2">>,
      <<e>>, <<"text">>, <<m, ":", e>> }

\* Lines of a log with the sections of cppcheck.
CppcheckLines(s, e, m) ==
    { <<s, "a.cpp">>, <<e>>,
      <<m, "(error)", "m1">>,
      <<m, "Checking", "a.cpp">>,
      <<m, "(style)", "is never used">>,
      <<m, "(information)", "m1">>,
      <<m, "is never used", "(error)", "m1">>,
      <<m, "is never used">>,
      <<m, "(error)", e>> }

\* One of the four functions is called on a log that holds its sections.
InitPerFile ==
    /\ \/ /\ vera = VeraInit
          /\ log \in Logs(PerFileLines("MSGBLD0130", "MSGBLD0140", "MSGBLD0135"))
          /\ cppcheck = Idle /\ format = Idle /\ pep8 = Idle
       \/ /\ cppcheck = CppcheckInit
          /\ log \in Logs(CppcheckLines("MSGBLD0150", "MSGBLD0160", "MSGBLD0155"))
          /\ vera = Idle /\ format = Idle /\ pep8 = Idle
       \/ /\ format = FormatInit
          /\ log \in Logs(PerFileLines("MSGBLD0170", "MSGBLD0180", "MSGBLD0175"))
          /\ vera = Idle /\ cppcheck = Idle /\ pep8 = Idle
       \/ /\ pep8 = Pep8Init
          /\ log \in Logs(PerFileLines("MSGBLD0190", "MSGBLD0200", "MSGBLD0195"))
          /\ vera = Idle /\ cppcheck = Idle /\ format = Idle
    /\ pairscan = Idle /\ makebuild = Idle /\ testsuite = Idle /\ rc = Idle
    /\ changed = Idle /\ printable = Idle /\ main = Idle
    /\ firstrun = None

NextPerFile ==
    \/ VeraStep \/ VeraReturn
    \/ CppcheckStep \/ CppcheckReturn
    \/ FormatStep \/ FormatReturn
    \/ Pep8Step \/ Pep8Return

SpecPerFile == InitPerFile /\ [][NextPerFile]_vars

(***************************************************************************)
(* makebuild_summary                                                       *)
(***************************************************************************)

\* line.split(':')[0]: the text before the first colon of a line that holds
\* one.  A lexeme that starts with a colon is written right after the
\* lexeme before it.
BeforeFirstColon(line) ==
    LET k == SetMin({j \in DOMAIN line : HasColon(line[j])})
    IN  IF line[k] = "Total number of tests:"
        THEN SubSeq(line, 1, k - 1) \o <<"Total number of tests">>
        ELSE SubSeq(line, 1, k - 1)

MakeInit ==
    [pc |-> "scan", i |-> 1, error_summary |-> None, warning_summary |-> None,
     number_of_error_msgs |-> 0, number_of_warning_msgs |-> 0,
     in_make_section |-> FALSE, result |-> None]

\* The tuple makebuild_summary returns.
MakeResult(status, nerr, errs, nwarn, warns) ==
    [status |-> status, number_of_errors |-> nerr, summary_errors |-> errs,
     number_of_warnings |-> nwarn, summary_warnings |-> warns]

\* The body of the loop over the lines of makebuild_summary.
makebuild_summary_line(st, line, msg_make_section_start, msg_make_section_end) ==
    LET s1 == IF is_message(line, msg_make_section_start)
              THEN [st EXCEPT !.in_make_section = TRUE,
                              !.error_summary = Some(EmptyDict),
                              !.warning_summary = Some(EmptyDict)]
              ELSE st
        file_name == BeforeFirstColon(line)
        s2 == IF s1.in_make_section /\ is_message(line, ": error:")
              THEN [s1 EXCEPT !.error_summary =
                                  Some(DictSet(Val(@), file_name,
                                               DictGet(Val(@), file_name, 0) + 1)),
                              !.number_of_error_msgs = @ + 1]
              ELSE s1
        s3 == IF s2.in_make_section /\ is_message(line, ": warning:")
              THEN [s2 EXCEPT !.warning_summary =
                                  Some(DictSet(Val(@), file_name,
                                               DictGet(Val(@), file_name, 0) + 1)),
                              !.number_of_warning_msgs = @ + 1]
              ELSE s2
    IN  IF is_message(line, msg_make_section_end)
        THEN [s3 EXCEPT !.pc = "done",
                        !.result = Some(MakeResult(Some(s3.number_of_error_msgs = 0),
                                                   Some(s3.number_of_error_msgs),
                                                   s3.error_summary,
                                                   Some(s3.number_of_warning_msgs),
                                                   s3.warning_summary))]
        ELSE s3

\* One line of the log read by makebuild_summary, called as at line 959.
MakeStep ==
    /\ makebuild.pc = "scan"
    /\ makebuild.i <= Len(log)
    /\ makebuild' = [makebuild_summary_line(makebuild, log[makebuild.i],
                                            "MSGBLD0250", "MSGBLD0260")
                     EXCEPT !.i = @ + 1]
    /\ UNCHANGED <<firstrun, log, pairscan, vera, cppcheck, format, pep8, testsuite, rc,
                 changed, printable, main>>

\* End of the log: makebuild_summary returns five times None.
MakeReturn ==
    /\ makebuild.pc = "scan"
    /\ makebuild.i > Len(log)
    /\ makebuild' = [makebuild EXCEPT
            !.pc = "done",
            !.result = Some(MakeResult(None, None, None, None, None))]
    /\ UNCHANGED <<firstrun, log, pairscan, vera, cppcheck, format, pep8, testsuite, rc,
                 changed, printable, main>>

(***************************************************************************)
(* testsuite_results                                                       *)
(***************************************************************************)

\* str.isdigit() of a word, and the words int() converts.
IsDigit(word) == word \in {"0", "1", "42"}
IsInt(word) == word \in {"0", "1", "42", "-1"}
IntOf(word) ==
    CASE word = "0" -> 0
      [] word = "1" -> 1
      [] word = "42" -> 42
      [] word = "-1" -> 0 - 1

TestsInit ==
    [pc |-> "scan", i |-> 1, in_installcheck_section |-> FALSE,
     in_results_section |-> FALSE, total_number_of_tests |-> None,
     number_of_tests_failed |-> None, status_tests |-> None]

\* Mutant: the results are read outside the section of the test suite.
testsuite_results_line_NoSectionGuard(st, line, msg_testsuite_section_start, msg_testsuite_end_message) ==
    LET s1 == IF is_message(line, msg_testsuite_section_start)
              THEN [st EXCEPT !.in_installcheck_section = TRUE] ELSE st
        s2 == IF line = <<"NEST Testsuite Summary">>
              THEN [s1 EXCEPT !.in_results_section = TRUE] ELSE s1
        total == is_message(line, "Total number of tests:")
        failed == is_message(line, "Failed")
        digits == {k \in DOMAIN line : IsDigit(line[k])}
        s3 == IF s2.in_results_section /\ total
              THEN [s2 EXCEPT !.total_number_of_tests = Some(IntOf(LastWord(line)))]
              ELSE s2
        s4 == IF s2.in_results_section /\ failed
              THEN [s3 EXCEPT !.number_of_tests_failed = Some(IntOf(line[SetMin(digits)]))]
              ELSE s3
    IN  IF s2.in_results_section /\ total /\ ~IsInt(LastWord(line))
        THEN [s2 EXCEPT !.pc = "raised"]
        ELSE IF s2.in_results_section /\ failed /\ digits = {}
        THEN [s3 EXCEPT !.pc = "raised"]
        ELSE IF is_message(line, msg_testsuite_end_message)
        THEN [s4 EXCEPT !.pc = "done",
                        !.status_tests = Some(s4.number_of_tests_failed = Some(0))]
        ELSE s4

\* Mutant: no number of failed tests counts as zero failed tests.
testsuite_results_line_NoneIsZero(st, line, msg_testsuite_section_start, msg_testsuite_end_message) ==
    LET s1 == IF is_message(line, msg_testsuite_section_start)
              THEN [st EXCEPT !.in_installcheck_section = TRUE] ELSE st
        s2 == IF line = <<"NEST Testsuite Summary">>
              THEN [s1 EXCEPT !.in_results_section = TRUE] ELSE s1
        total == is_message(line, "Total number of tests:")
        failed == is_message(line, "Failed")
        digits == {k \in DOMAIN line : IsDigit(line[k])}
        s3 == IF s2.in_results_section /\ total
              THEN [s2 EXCEPT !.total_number_of_tests = Some(IntOf(LastWord(line)))]
              ELSE s2
        s4 == IF s2.in_results_section /\ failed
              THEN [s3 EXCEPT !.number_of_tests_failed = Some(IntOf(line[SetMin(digits)]))]
              ELSE s3
    IN  IF ~s1.in_installcheck_section THEN s1
        ELSE IF s2.in_results_section /\ total /\ ~IsInt(LastWord(line))
        THEN [s2 EXCEPT !.pc = "raised"]
        ELSE IF s2.in_results_section /\ failed /\ digits = {}
        THEN [s3 EXCEPT !.pc = "raised"]
        ELSE IF is_message(line, msg_testsuite_end_message)
        THEN [s4 EXCEPT !.pc = "done",
                        !.status_tests = Some(s4.number_of_tests_failed \in {None, Some(0)})]
        ELSE s4

\* Mutant: a malformed number is skipped.
testsuite_results_line_SkipMalformed(st, line, msg_testsuite_section_start, msg_testsuite_end_message) ==
    LET s1 == IF is_message(line, msg_testsuite_section_start)
              THEN [st EXCEPT !.in_installcheck_section = TRUE] ELSE st
        s2 == IF line = <<"NEST Testsuite Summary">>
              THEN [s1 EXCEPT !.in_results_section = TRUE] ELSE s1
        total == is_message(line, "Total number of tests:")
        failed == is_message(line, "Failed")
        digits == {k \in DOMAIN line : IsDigit(line[k])}
        s3 == IF s2.in_results_section /\ total
              THEN [s2 EXCEPT !.total_number_of_tests = Some(IntOf(LastWord(line)))]
              ELSE s2
        s4 == IF s2.in_results_section /\ failed
              THEN [s3 EXCEPT !.number_of_tests_failed = Some(IntOf(line[SetMin(digits)]))]
              ELSE s3
    IN  IF ~s1.in_installcheck_section THEN s1
        ELSE IF s2.in_results_section /\ total /\ ~IsInt(LastWord(line))
        THEN s2
        ELSE IF s2.in_results_section /\ failed /\ digits = {}
        THEN s3
        ELSE IF is_message(line, msg_testsuite_end_message)
        THEN [s4 EXCEPT !.pc = "done",
                        !.status_tests = Some(s4.number_of_tests_failed = Some(0))]
        ELSE s4

\* Mutant: the numbers are read in the section before the banner as well.
testsuite_results_line_NoBannerGuard(st, line, msg_testsuite_section_start, msg_testsuite_end_message) ==
    LET s1 == IF is_message(line, msg_testsuite_section_start)
              THEN [st EXCEPT !.in_installcheck_section = TRUE] ELSE st
        s2 == IF line = <<"NEST Testsuite Summary">>
              THEN [s1 EXCEPT !.in_results_section = TRUE] ELSE s1
        total == is_message(line, "Total number of tests:")
        failed == is_message(line, "Failed")
        digits == {k \in DOMAIN line : IsDigit(line[k])}
        s3 == IF total
              THEN [s2 EXCEPT !.total_number_of_tests = Some(IntOf(LastWord(line)))]
              ELSE s2
        s4 == IF failed
              THEN [s3 EXCEPT !.number_of_tests_failed = Some(IntOf(line[SetMin(digits)]))]
              ELSE s3
    IN  IF ~s1.in_installcheck_section THEN s1
        ELSE IF total /\ ~IsInt(LastWord(line))
        THEN [s2 EXCEPT !.pc = "raised"]
        ELSE IF failed /\ digits = {}
        THEN [s3 EXCEPT !.pc = "raised"]
        ELSE IF is_message(line, msg_testsuite_end_message)
        THEN [s4 EXCEPT !.pc = "done",
                        !.status_tests = Some(s4.number_of_tests_failed = Some(0))]
        ELSE s4

\* The body of the loop over the lines of testsuite_results.  int() of a
\* word that is no number and [0] of an empty list raise: pc is "raised".
testsuite_results_line(st, line, msg_testsuite_section_start, msg_testsuite_end_message) ==
    LET s1 == IF is_message(line, msg_testsuite_section_start)
              THEN [st EXCEPT !.in_installcheck_section = TRUE] ELSE st
        s2 == IF line = <<"NEST Testsuite Summary">>
              THEN [s1 EXCEPT !.in_results_section = TRUE] ELSE s1
        total == is_message(line, "Total number of tests:")
        failed == is_message(line, "Failed")
        digits == {k \in DOMAIN line : IsDigit(line[k])}
        s3 == IF s2.in_results_section /\ total
              THEN [s2 EXCEPT !.total_number_of_tests = Some(IntOf(LastWord(line)))]
              ELSE s2
        s4 == IF s2.in_results_section /\ failed
              THEN [s3 EXCEPT !.number_of_tests_failed = Some(IntOf(line[SetMin(digits)]))]
              ELSE s3
    IN  IF ~s1.in_installcheck_section THEN s1
        ELSE IF s2.in_results_section /\ total /\ ~IsInt(LastWord(line))
        THEN [s2 EXCEPT !.pc = "raised"]
        ELSE IF s2.in_results_section /\ failed /\ digits = {}
        THEN [s3 EXCEPT !.pc = "raised"]
        ELSE IF is_message(line, msg_testsuite_end_message)
        THEN [s4 EXCEPT !.pc = "done",
                        !.status_tests = Some(s4.number_of_tests_failed = Some(0))]
        ELSE s4

\* One line of the log read by testsuite_results, called as at line 964.
TestsStep ==
    /\ testsuite.pc = "scan"
    /\ testsuite.i <= Len(log)
    /\ testsuite' = [testsuite_results_line(testsuite, log[testsuite.i],
                                            "MSGBLD0290", "MSGBLD0300")
                     EXCEPT !.i = @ + 1]
    /\ UNCHANGED <<firstrun, log, pairscan, vera, cppcheck, format, pep8, makebuild, rc,
                 changed, printable, main>>

\* End of the log: testsuite_results returns its three values.
TestsReturn ==
    /\ testsuite.pc = "scan"
    /\ testsuite.i > Len(log)
    /\ testsuite' = [testsuite EXCEPT !.pc = "done"]
    /\ UNCHANGED <<firstrun, log, pairscan, vera, cppcheck, format, pep8, makebuild, rc,
                 changed, printable, main>>

\* Lines of a log with the make section.
MakeLines(s, e) ==
    { <<s>>, <<e>>, <<"foo.cpp", ": error:", "bad">>,
      <<"bar.cpp", ": warning:", "unused">>,
      <<"foo.cpp", ": error:", "bad", e>>, <<"text">> }

\* Lines of a log with the section of the test suite.
TestsLines(s, e) ==
    { <<s>>, <<e>>, <<"NEST Testsuite Summary">>,
      <<"Total number of tests:", "42">>, <<"Total number of tests:", "many">>,
      <<"Failed", "0", "of", "42">>, <<"Failed", "1", "of", "42">>,
      <<"Failed">> }

\* A log of a test suite without failed tests.
TestsScenario(s, e) ==
    << <<s>>, <<"NEST Testsuite Summary">>, <<"Total number of tests:", "42">>,
       <<"Failed", "0", "of", "42">>, <<e>> >>

\* One of the two functions is called on a log that holds its section.
InitSection ==
    /\ \/ /\ makebuild = MakeInit
          /\ log \in Logs(MakeLines("MSGBLD0250", "MSGBLD0260"))
          /\ testsuite = Idle
       \/ /\ testsuite = TestsInit
          /\ log \in Logs(TestsLines("MSGBLD0290", "MSGBLD0300"))
                    \cup {TestsScenario("MSGBLD0290", "MSGBLD0300")}
          /\ makebuild = Idle
    /\ pairscan = Idle /\ vera = Idle /\ cppcheck = Idle /\ format = Idle
    /\ pep8 = Idle /\ rc = Idle
    /\ changed = Idle /\ printable = Idle /\ main = Idle
    /\ firstrun = None

NextSection == MakeStep \/ MakeReturn \/ TestsStep \/ TestsReturn

SpecSection == InitSection /\ [][NextSection]_vars

(***************************************************************************)
(* build_return_code                                                       *)
(***************************************************************************)

number_of_msgs_for_file_in_summary(file_name, summary) ==
    IF summary # None
    THEN SumOver(Val(summary)[file_name], DOMAIN Val(summary)[file_name])
    ELSE 0

number_of_msgs_in_summary(summary) ==
    IF summary # None
    THEN SumOver([file_name \in DOMAIN Val(summary) |->
                     number_of_msgs_for_file_in_summary(file_name, summary)],
                 DOMAIN Val(summary))
    ELSE 0

\* Mutant: a skipped initialization counts as a failure.
build_return_code_InitMustBeTrue(status_vera_init, status_cppcheck_init, status_format_init, status_cmake_configure, status_make, status_make_install, status_tests, summary_vera, summary_cppcheck, summary_format, summary_pep8) ==
    IF /\ Truthy(status_vera_init)
       /\ Truthy(status_format_init)
       /\ Truthy(status_cmake_configure)
       /\ Truthy(status_make)
       /\ Truthy(status_make_install)
       /\ Truthy(status_tests)
       /\ number_of_msgs_in_summary(summary_vera) = 0
       /\ number_of_msgs_in_summary(summary_cppcheck) = 0
       /\ number_of_msgs_in_summary(summary_format) = 0
       /\ number_of_msgs_in_summary(summary_pep8) = 0
    THEN 0
    ELSE 1

build_return_code(status_vera_init, status_cppcheck_init, status_format_init, status_cmake_configure, status_make, status_make_install, status_tests, summary_vera, summary_cppcheck, summary_format, summary_pep8) ==
    IF /\ (status_vera_init = None \/ Truthy(status_vera_init))
       /\ (status_format_init = None \/ Truthy(status_format_init))
       /\ Truthy(status_cmake_configure)
       /\ Truthy(status_make)
       /\ Truthy(status_make_install)
       /\ Truthy(status_tests)
       /\ number_of_msgs_in_summary(summary_vera) = 0
       /\ number_of_msgs_in_summary(summary_cppcheck) = 0
       /\ number_of_msgs_in_summary(summary_format) = 0
       /\ number_of_msgs_in_summary(summary_pep8) = 0
    THEN 0
    ELSE 1

\* The message tables a per-file function can return: None, or a table with
\* at least one file, each file with a table of counted messages.
RcFiles == {"a.cpp"}
RcMsgs == {<<"m1">>}
RcSubTables == UNION {[M -> 1..MaxCount] : M \in SUBSET RcMsgs}
RcTables ==
    {None} \cup
    {Some(t) : t \in UNION {[F -> RcSubTables] : F \in (SUBSET RcFiles) \ {{}}}}

\* The arguments of a call of build_return_code.
RcArgs ==
    [status_vera_init : Tristate, status_cppcheck_init : Tristate,
     status_format_init : Tristate, status_cmake_configure : Tristate,
     status_make : Tristate, status_make_install : Tristate,
     status_tests : Tristate, summary_vera : RcTables,
     summary_cppcheck : RcTables, summary_format : RcTables,
     summary_pep8 : RcTables]

\* build_return_code applied to a record of arguments.
ExitCodeOf(a) ==
    build_return_code(a.status_vera_init, a.status_cppcheck_init,
                      a.status_format_init, a.status_cmake_configure,
                      a.status_make, a.status_make_install, a.status_tests,
                      a.summary_vera, a.summary_cppcheck, a.summary_format,
                      a.summary_pep8)

\* The call of build_return_code at line 966.
BuildReturnCode ==
    /\ rc.pc = "call"
    /\ rc' = [rc EXCEPT !.pc = "done", !.exit_code = Some(ExitCodeOf(rc.args))]
    /\ UNCHANGED <<firstrun, log, pairscan, vera, cppcheck, format, pep8, makebuild, testsuite,
                 changed, printable, main>>

InitRC ==
    /\ \E a \in RcArgs : rc = [pc |-> "call", args |-> a, exit_code |-> None]
    /\ log = <<>>
    /\ pairscan = Idle /\ vera = Idle /\ cppcheck = Idle /\ format = Idle
    /\ pep8 = Idle /\ makebuild = Idle /\ testsuite = Idle
    /\ changed = Idle /\ printable = Idle /\ main = Idle
    /\ firstrun = None

NextRC == BuildReturnCode

SpecRC == InitRC /\ [][NextRC]_vars

(***************************************************************************)
(* list_of_changed_files                                                   *)
(***************************************************************************)

ChangedInit ==
    [pc |-> "call", i |-> 1, changed_files |-> <<>>,
     in_changed_files_section |-> FALSE]

\* Mutant: the end marker does not end the scan.
list_of_changed_files_line_NoReturn(st, line, msg_changed_files_section_start, msg_changed_files_section_end, msg_changed_files) ==
    IF ~st.in_changed_files_section /\ is_message(line, msg_changed_files_section_start)
    THEN [st EXCEPT !.in_changed_files_section = TRUE]
    ELSE IF st.in_changed_files_section /\ is_message(line, msg_changed_files)
    THEN [st EXCEPT !.changed_files = Append(@, LastWord(line))]
    ELSE st

\* The body of the loop over the lines of list_of_changed_files.
list_of_changed_files_line(st, line, msg_changed_files_section_start, msg_changed_files_section_end, msg_changed_files) ==
    IF ~st.in_changed_files_section /\ is_message(line, msg_changed_files_section_start)
    THEN [st EXCEPT !.in_changed_files_section = TRUE]
    ELSE IF st.in_changed_files_section
    THEN IF is_message(line, msg_changed_files)
         THEN [st EXCEPT !.changed_files = Append(@, LastWord(line))]
         ELSE IF is_message(line, msg_changed_files_section_end)
         THEN [st EXCEPT !.pc = "done"]
         ELSE st
    ELSE st

\* The head of list_of_changed_files, called as at line 919: the call of
\* is_message_pair_in_logfile, which reads the whole log, and on its
\* return the test that returns the empty list unless the result is True.
ChangedCall ==
    /\ changed.pc = "call"
    /\ pairscan.pc \in {"idle", "done"}
    /\ IF pairscan.pc = "idle"
       THEN /\ pairscan' = PairInit("MSGBLD0070", "MSGBLD0100")
            /\ UNCHANGED changed
       ELSE /\ changed' = IF ~Truthy(pairscan.pair_found)
                          THEN [changed EXCEPT !.pc = "done"]
                          ELSE [changed EXCEPT !.pc = "scan"]
            /\ pairscan' = Idle
    /\ UNCHANGED <<firstrun, log, vera, cppcheck, format, pep8, makebuild,
                   testsuite, rc, printable, main>>

\* One line of the log read by list_of_changed_files.
ChangedStep ==
    /\ changed.pc = "scan"
    /\ changed.i <= Len(log)
    /\ changed' = [list_of_changed_files_line(changed, log[changed.i], "MSGBLD0070",
                                              "MSGBLD0100", "MSGBLD0095")
                   EXCEPT !.i = @ + 1]
    /\ UNCHANGED <<firstrun, log, pairscan, vera, cppcheck, format, pep8, makebuild,
                   testsuite, rc, printable, main>>

\* End of the log: list_of_changed_files returns changed_files.
ChangedReturn ==
    /\ changed.pc = "scan"
    /\ changed.i > Len(log)
    /\ changed' = [changed EXCEPT !.pc = "done"]
    /\ UNCHANGED <<firstrun, log, pairscan, vera, cppcheck, format, pep8, makebuild,
                   testsuite, rc, printable, main>>

\* Lines of a log with the section of the changed files.
ChangedLines(s, e, m) ==
    { <<s>>, <<e>>, <<s, e>>, <<m, "a.cpp">>, <<m, "b.py">>,
      <<e, m, "a.cpp">>, <<"text">> }

InitChanged ==
    /\ changed = ChangedInit
    /\ log \in Logs(ChangedLines("MSGBLD0070", "MSGBLD0100", "MSGBLD0095"))
    /\ pairscan = Idle /\ vera = Idle /\ cppcheck = Idle /\ format = Idle
    /\ pep8 = Idle /\ makebuild = Idle /\ testsuite = Idle /\ rc = Idle
    /\ printable = Idle /\ main = Idle
    /\ firstrun = None

NextChanged ==
    ChangedCall \/ PairStep \/ PairReturn \/ ChangedStep \/ ChangedReturn

SpecChanged == InitChanged /\ [][NextChanged]_vars

(***************************************************************************)
(* The report: convert_*, the tables and printable_summary                 *)
(***************************************************************************)

\* Mutant: a status of None is reported as a failure.
convert_bool_value_to_status_string_NoneIsFailed(value) ==
    IF Truthy(value) THEN "Passed successfully" ELSE "Failed"

convert_bool_value_to_status_string(value) ==
    IF Truthy(value) THEN "Passed successfully"
    ELSE IF value = None THEN "Skipped"
    ELSE "Failed"

convert_bool_value_to_yes_no_string(value) ==
    IF Truthy(value) THEN "Yes" ELSE "No"

\* Mutant: a table without messages counts as a skipped analysis.
convert_summary_to_status_string_EmptyIsSkipped(summary) ==
    LET value == IF number_of_msgs_in_summary(summary) = 0 THEN None
                 ELSE Some(FALSE)
    IN  convert_bool_value_to_status_string(value)

convert_summary_to_status_string(summary) ==
    LET value == IF summary = None THEN None
                 ELSE Some(number_of_msgs_in_summary(summary) = 0)
    IN  convert_bool_value_to_status_string(value)

\* A table of a file: the title row with the file name and, for each tool
\* with messages, the row of its label and the rows of its messages.
\* The layout of the cells is the work of the library terminaltables.
FileTable(file, sections) == [file |-> file, sections |-> sections]

\* The rows of one tool in the table of a file: none without messages.
ToolRows(label, file, summary) ==
    IF number_of_msgs_for_file_in_summary(file, summary) > 0
    THEN << <<label, Val(summary)[file]>> >>
    ELSE <<>>

\* Mutant: no assertion on the file names of the three tables.
code_analysis_per_file_tables_NoAssert(summary_vera, summary_cppcheck, summary_format, summary_pep8) ==
    LET cpp == summary_vera # None /\ summary_cppcheck # None /\ summary_format # None
        common == (DOMAIN Val(summary_format)) \cap (DOMAIN Val(summary_cppcheck))
                      \cap (DOMAIN Val(summary_vera))
        cpp_tables ==
            IF cpp
            THEN {FileTable(file, ToolRows("VERA++ (MSGBLD0135):", file, summary_vera)
                                  \o ToolRows("Cppcheck (MSGBLD0155):", file, summary_cppcheck)
                                  \o ToolRows("clang-format (MSGBLD0175):", file, summary_format)) :
                     file \in {f \in common :
                                  \/ number_of_msgs_for_file_in_summary(f, summary_vera) > 0
                                  \/ number_of_msgs_for_file_in_summary(f, summary_cppcheck) > 0
                                  \/ number_of_msgs_for_file_in_summary(f, summary_format) > 0}}
            ELSE {}
        pep8_tables ==
            IF summary_pep8 # None
            THEN {FileTable(file, ToolRows("PEP8 (MSGBLD0195):", file, summary_pep8)) :
                     file \in {f \in DOMAIN Val(summary_pep8) :
                                  number_of_msgs_for_file_in_summary(f, summary_pep8) > 0}}
            ELSE {}
    IN  Some(cpp_tables \cup pep8_tables)

\* code_analysis_per_file_tables: the set of the tables of the files, or
\* None when an assertion fails.  keys() are lists in the source; two
\* tables of different file names never have equal lists, and tables of
\* the same file names are taken to list them in the same order.
code_analysis_per_file_tables(summary_vera, summary_cppcheck, summary_format, summary_pep8) ==
    LET cpp == summary_vera # None /\ summary_cppcheck # None /\ summary_format # None
        asserted == /\ DOMAIN Val(summary_format) = DOMAIN Val(summary_cppcheck)
                    /\ DOMAIN Val(summary_format) = DOMAIN Val(summary_vera)
        cpp_tables ==
            IF cpp
            THEN {FileTable(file, ToolRows("VERA++ (MSGBLD0135):", file, summary_vera)
                                  \o ToolRows("Cppcheck (MSGBLD0155):", file, summary_cppcheck)
                                  \o ToolRows("clang-format (MSGBLD0175):", file, summary_format)) :
                     file \in {f \in DOMAIN Val(summary_format) :
                                  \/ number_of_msgs_for_file_in_summary(f, summary_vera) > 0
                                  \/ number_of_msgs_for_file_in_summary(f, summary_cppcheck) > 0
                                  \/ number_of_msgs_for_file_in_summary(f, summary_format) > 0}}
            ELSE {}
        pep8_tables ==
            IF summary_pep8 # None
            THEN {FileTable(file, ToolRows("PEP8 (MSGBLD0195):", file, summary_pep8)) :
                     file \in {f \in DOMAIN Val(summary_pep8) :
                                  number_of_msgs_for_file_in_summary(f, summary_pep8) > 0}}
            ELSE {}
    IN  IF cpp /\ ~asserted THEN None
        ELSE Some(cpp_tables \cup pep8_tables)

warnings_table(summary) == [title |-> "Warnings in file:", rows |-> summary]

errors_table(summary) == [title |-> "Errors in file:", rows |-> summary]

\* Python 2 orders None below every number: None > 0 is False.
Positive(number) == number # None /\ Val(number) > 0

\* Mutant: the trailer does not depend on the exit code.
printable_summary_AlwaysSuccess(list_of_changed_files, status_vera_init, status_cppcheck_init, status_format_init, status_cmake_configure, status_make, status_make_install, status_amazon_s3_upload, status_tests, summary_vera, summary_cppcheck, summary_format, summary_pep8, summary_errors, summary_warnings, number_of_errors, number_of_warnings, number_of_tests_total, number_of_tests_failed, exit_code) ==
    LET any_msgs == \/ number_of_msgs_in_summary(summary_vera) > 0
                    \/ number_of_msgs_in_summary(summary_cppcheck) > 0
                    \/ number_of_msgs_in_summary(summary_format) > 0
                    \/ number_of_msgs_in_summary(summary_pep8) > 0
        all_tables == code_analysis_per_file_tables(summary_vera, summary_cppcheck,
                                                    summary_format, summary_pep8)
    IN  IF any_msgs /\ all_tables = None THEN None
        ELSE Some([
            analysis |-> IF any_msgs THEN all_tables ELSE None,
            warnings |-> IF Positive(number_of_warnings)
                         THEN Some(warnings_table(Val(summary_warnings))) ELSE None,
            errors |-> IF Positive(number_of_errors)
                       THEN Some(errors_table(Val(summary_errors))) ELSE None,
            changed_files |-> list_of_changed_files,
            vera_init |-> convert_bool_value_to_status_string(status_vera_init),
            cppcheck_init |-> convert_bool_value_to_status_string(status_cppcheck_init),
            format_init |-> convert_bool_value_to_status_string(status_format_init),
            vera |-> <<convert_summary_to_status_string(summary_vera),
                       number_of_msgs_in_summary(summary_vera)>>,
            cppcheck |-> <<convert_summary_to_status_string(summary_cppcheck),
                           number_of_msgs_in_summary(summary_cppcheck)>>,
            format |-> <<convert_summary_to_status_string(summary_format),
                         number_of_msgs_in_summary(summary_format)>>,
            pep8 |-> <<convert_summary_to_status_string(summary_pep8),
                       number_of_msgs_in_summary(summary_pep8)>>,
            cmake_configure |-> convert_bool_value_to_status_string(status_cmake_configure),
            make |-> <<convert_bool_value_to_status_string(status_make),
                       number_of_errors, number_of_warnings>>,
            make_install |-> convert_bool_value_to_status_string(status_make_install),
            make_installcheck |-> <<convert_bool_value_to_status_string(status_tests),
                                    number_of_tests_total, number_of_tests_failed>>,
            amazon_s3_upload |-> convert_bool_value_to_yes_no_string(status_amazon_s3_upload),
            trailer |-> "BUILD TERMINATED SUCCESSFULLY"])

\* printable_summary: the report as the record of its parts, or None when
\* code_analysis_per_file_tables raises.  The parts are, in the order of
\* the text: the section of the static code analysis, of the warnings and
\* of the errors (None when absent), the rows of the summary table, the
\* trailer.  str() of the numbers and the join of the changed files are
\* kept as the values they print.
printable_summary(list_of_changed_files, status_vera_init, status_cppcheck_init, status_format_init, status_cmake_configure, status_make, status_make_install, status_amazon_s3_upload, status_tests, summary_vera, summary_cppcheck, summary_format, summary_pep8, summary_errors, summary_warnings, number_of_errors, number_of_warnings, number_of_tests_total, number_of_tests_failed, exit_code) ==
    LET any_msgs == \/ number_of_msgs_in_summary(summary_vera) > 0
                    \/ number_of_msgs_in_summary(summary_cppcheck) > 0
                    \/ number_of_msgs_in_summary(summary_format) > 0
                    \/ number_of_msgs_in_summary(summary_pep8) > 0
        all_tables == code_analysis_per_file_tables(summary_vera, summary_cppcheck,
                                                    summary_format, summary_pep8)
    IN  IF any_msgs /\ all_tables = None THEN None
        ELSE Some([
            analysis |-> IF any_msgs THEN all_tables ELSE None,
            warnings |-> IF Positive(number_of_warnings)
                         THEN Some(warnings_table(Val(summary_warnings))) ELSE None,
            errors |-> IF Positive(number_of_errors)
                       THEN Some(errors_table(Val(summary_errors))) ELSE None,
            changed_files |-> list_of_changed_files,
            vera_init |-> convert_bool_value_to_status_string(status_vera_init),
            cppcheck_init |-> convert_bool_value_to_status_string(status_cppcheck_init),
            format_init |-> convert_bool_value_to_status_string(status_format_init),
            vera |-> <<convert_summary_to_status_string(summary_vera),
                       number_of_msgs_in_summary(summary_vera)>>,
            cppcheck |-> <<convert_summary_to_status_string(summary_cppcheck),
                           number_of_msgs_in_summary(summary_cppcheck)>>,
            format |-> <<convert_summary_to_status_string(summary_format),
                         number_of_msgs_in_summary(summary_format)>>,
            pep8 |-> <<convert_summary_to_status_string(summary_pep8),
                       number_of_msgs_in_summary(summary_pep8)>>,
            cmake_configure |-> convert_bool_value_to_status_string(status_cmake_configure),
            make |-> <<convert_bool_value_to_status_string(status_make),
                       number_of_errors, number_of_warnings>>,
            make_install |-> convert_bool_value_to_status_string(status_make_install),
            make_installcheck |-> <<convert_bool_value_to_status_string(status_tests),
                                    number_of_tests_total, number_of_tests_failed>>,
            amazon_s3_upload |-> convert_bool_value_to_yes_no_string(status_amazon_s3_upload),
            trailer |-> IF exit_code = 0 THEN "BUILD TERMINATED SUCCESSFULLY"
                        ELSE "BUILD FAILED"])

\* The message tables of the C++ tools and of PEP8 given to the report:
\* None, or a table with at least one file.
RenderFiles == {"a.cpp", "b.cpp"}
RenderTables ==
    {None} \cup
    {Some(t) : t \in UNION {[F -> RcSubTables] : F \in (SUBSET RenderFiles) \ {{}}}}
Pep8Tables == {None} \cup {Some(t) : t \in [{"b.py"} -> RcSubTables]}

\* The arguments of printable_summary after a build where every phase
\* passed and no analysis ran.
PassedArgs ==
    [list_of_changed_files |-> <<"a.cpp">>,
     status_vera_init |-> Some(TRUE), status_cppcheck_init |-> Some(TRUE),
     status_format_init |-> Some(TRUE), status_cmake_configure |-> Some(TRUE),
     status_make |-> Some(TRUE), status_make_install |-> Some(TRUE),
     status_amazon_s3_upload |-> Some(TRUE), status_tests |-> Some(TRUE),
     summary_vera |-> None, summary_cppcheck |-> None, summary_format |-> None,
     summary_pep8 |-> None,
     summary_errors |-> Some(EmptyDict), summary_warnings |-> Some(EmptyDict),
     number_of_errors |-> Some(0), number_of_warnings |-> Some(0),
     number_of_tests_total |-> Some(42), number_of_tests_failed |-> Some(0),
     exit_code |-> 0]

\* Results of makebuild_summary and of testsuite_results.
RenderMakeResults ==
    { MakeResult(None, None, None, None, None),
      MakeResult(Some(TRUE), Some(0), Some(EmptyDict), Some(0), Some(EmptyDict)),
      MakeResult(Some(TRUE), Some(0), None, Some(0), None),
      MakeResult(Some(FALSE), Some(1), Some(DictSet(EmptyDict, <<"foo.cpp">>, 1)),
                 Some(0), Some(EmptyDict)),
      MakeResult(Some(TRUE), Some(0), Some(EmptyDict),
                 Some(1), Some(DictSet(EmptyDict, <<"bar.cpp">>, 1))) }
RenderTestsResults ==
    { <<None, None, None>>, <<Some(FALSE), None, None>>,
      <<Some(TRUE), Some(42), Some(0)>>, <<Some(FALSE), Some(42), Some(1)>> }

\* The arguments of a call of printable_summary: the build that passed,
\* with other message tables, or other phase statuses, or other results
\* of make and of the tests, and either exit code.
RenderArgs ==
    {[PassedArgs EXCEPT !.summary_vera = v, !.summary_cppcheck = c,
                        !.summary_format = f, !.summary_pep8 = p,
                        !.exit_code = x] :
        v \in RenderTables, c \in RenderTables, f \in RenderTables,
        p \in Pep8Tables, x \in {0, 1}}
    \cup
    {[PassedArgs EXCEPT !.status_vera_init = st[1], !.status_cppcheck_init = st[2],
                        !.status_format_init = st[3],
                        !.status_cmake_configure = st[4],
                        !.status_make_install = st[5],
                        !.status_amazon_s3_upload = Some(up),
                        !.exit_code = x] :
        st \in [1..5 -> Tristate], up \in BOOLEAN, x \in {0, 1}}
    \cup
    {[PassedArgs EXCEPT !.list_of_changed_files = ch,
                        !.status_make = m.status,
                        !.number_of_errors = m.number_of_errors,
                        !.summary_errors = m.summary_errors,
                        !.number_of_warnings = m.number_of_warnings,
                        !.summary_warnings = m.summary_warnings,
                        !.status_tests = t[1],
                        !.number_of_tests_total = t[2],
                        !.number_of_tests_failed = t[3],
                        !.exit_code = x] :
        ch \in {<<>>, <<"a.cpp">>, <<"a.cpp", "b.py">>},
        m \in RenderMakeResults, t \in RenderTestsResults, x \in {0, 1}}

\* printable_summary applied to a record of arguments.
SummaryOf(a) ==
    printable_summary(a.list_of_changed_files, a.status_vera_init,
                      a.status_cppcheck_init, a.status_format_init,
                      a.status_cmake_configure, a.status_make,
                      a.status_make_install, a.status_amazon_s3_upload,
                      a.status_tests, a.summary_vera, a.summary_cppcheck,
                      a.summary_format, a.summary_pep8, a.summary_errors,
                      a.summary_warnings, a.number_of_errors,
                      a.number_of_warnings, a.number_of_tests_total,
                      a.number_of_tests_failed, a.exit_code)

\* A call of printable_summary: it returns the report, or raises the
\* AssertionError of code_analysis_per_file_tables.
PrintableSummary ==
    /\ printable.pc = "call"
    /\ LET build_summary == SummaryOf(printable.args)
       IN  printable' = IF build_summary = None
                        THEN [printable EXCEPT !.pc = "raised"]
                        ELSE [printable EXCEPT !.pc = "done",
                                               !.build_summary = build_summary]
    /\ UNCHANGED <<firstrun, log, pairscan, vera, cppcheck, format, pep8, makebuild,
                   testsuite, rc, changed, main>>

InitRender ==
    /\ \E a \in RenderArgs :
           printable = [pc |-> "call", args |-> a, build_summary |-> None]
    /\ log = <<>>
    /\ pairscan = Idle /\ vera = Idle /\ cppcheck = Idle /\ format = Idle
    /\ pep8 = Idle /\ makebuild = Idle /\ testsuite = Idle /\ rc = Idle
    /\ changed = Idle /\ main = Idle
    /\ firstrun = None

NextRender == PrintableSummary

SpecRender == InitRender /\ [][NextRender]_vars

(***************************************************************************)
(* __main__: the statements of the run.  A statement that calls a function *)
(* which reads the log starts the call and, when the function has          *)
(* returned, assigns its result.                                           *)
(***************************************************************************)

\* The loop of is_message_in_logfile from line k on: True at the first
\* line with the message, False at the end of the log.
RECURSIVE MessageFrom(_, _)
MessageFrom(k, msg_number) ==
    IF k > Len(log) THEN FALSE
    ELSE IF is_message(log[k], msg_number) THEN TRUE
    ELSE MessageFrom(k + 1, msg_number)

is_message_in_logfile(msg_number) == MessageFrom(1, msg_number)

\* The run before its first statement: no local is assigned, nothing is
\* printed, the process has not ended.
MainInit ==
    [pc |-> "changed_files", changed_files |-> <<>>,
     status_vera_init |-> None, status_cppcheck_init |-> None,
     status_format_init |-> None, status_cmake_configure |-> None,
     status_make_install |-> None, status_amazon_s3_upload |-> None,
     summary_vera |-> None, summary_cppcheck |-> None, summary_format |-> None,
     summary_pep8 |-> None, status_make |-> None, number_of_errors |-> None,
     summary_errors |-> None, number_of_warnings |-> None,
     summary_warnings |-> None, status_tests |-> None,
     number_of_tests_total |-> None, number_of_tests_failed |-> None,
     exit_code |-> None, stdout |-> None, exit_status |-> None]

\* changed_files = list_of_changed_files(...)
MainChangedFiles ==
    /\ main.pc = "changed_files"
    /\ changed.pc \in {"idle", "done"}
    /\ IF changed.pc = "idle"
       THEN /\ changed' = ChangedInit
            /\ UNCHANGED main
       ELSE /\ main' = [main EXCEPT !.changed_files = changed.changed_files,
                                    !.pc = "status_vera_init"]
            /\ changed' = Idle
    /\ UNCHANGED <<firstrun, log, pairscan, vera, cppcheck, format, pep8,
                   makebuild, testsuite, rc, printable>>

\* status_vera_init = is_message_pair_in_logfile(...)
MainStatusVeraInit ==
    /\ main.pc = "status_vera_init"
    /\ pairscan.pc \in {"idle", "done"}
    /\ IF pairscan.pc = "idle"
       THEN /\ pairscan' = PairInit("MSGBLD0010", "MSGBLD0020")
            /\ UNCHANGED main
       ELSE /\ main' = [main EXCEPT !.status_vera_init = pairscan.pair_found,
                                    !.pc = "status_cppcheck_init"]
            /\ pairscan' = Idle
    /\ UNCHANGED <<firstrun, log, vera, cppcheck, format, pep8, makebuild,
                   testsuite, rc, changed, printable>>

\* status_cppcheck_init = is_message_pair_in_logfile(...)
MainStatusCppcheckInit ==
    /\ main.pc = "status_cppcheck_init"
    /\ pairscan.pc \in {"idle", "done"}
    /\ IF pairscan.pc = "idle"
       THEN /\ pairscan' = PairInit("MSGBLD0030", "MSGBLD0040")
            /\ UNCHANGED main
       ELSE /\ main' = [main EXCEPT !.status_cppcheck_init = pairscan.pair_found,
                                    !.pc = "status_format_init"]
            /\ pairscan' = Idle
    /\ UNCHANGED <<firstrun, log, vera, cppcheck, format, pep8, makebuild,
                   testsuite, rc, changed, printable>>

\* status_format_init = is_message_pair_in_logfile(...)
MainStatusFormatInit ==
    /\ main.pc = "status_format_init"
    /\ pairscan.pc \in {"idle", "done"}
    /\ IF pairscan.pc = "idle"
       THEN /\ pairscan' = PairInit("MSGBLD0050", "MSGBLD0060")
            /\ UNCHANGED main
       ELSE /\ main' = [main EXCEPT !.status_format_init = pairscan.pair_found,
                                    !.pc = "status_cmake_configure"]
            /\ pairscan' = Idle
    /\ UNCHANGED <<firstrun, log, vera, cppcheck, format, pep8, makebuild,
                   testsuite, rc, changed, printable>>

\* status_cmake_configure = is_message_pair_in_logfile(...)
MainStatusCmakeConfigure ==
    /\ main.pc = "status_cmake_configure"
    /\ pairscan.pc \in {"idle", "done"}
    /\ IF pairscan.pc = "idle"
       THEN /\ pairscan' = PairInit("MSGBLD0230", "MSGBLD0240")
            /\ UNCHANGED main
       ELSE /\ main' = [main EXCEPT !.status_cmake_configure = pairscan.pair_found,
                                    !.pc = "status_make_install"]
            /\ pairscan' = Idle
    /\ UNCHANGED <<firstrun, log, vera, cppcheck, format, pep8, makebuild,
                   testsuite, rc, changed, printable>>

\* status_make_install = is_message_pair_in_logfile(...)
MainStatusMakeInstall ==
    /\ main.pc = "status_make_install"
    /\ pairscan.pc \in {"idle", "done"}
    /\ IF pairscan.pc = "idle"
       THEN /\ pairscan' = PairInit("MSGBLD0270", "MSGBLD0280")
            /\ UNCHANGED main
       ELSE /\ main' = [main EXCEPT !.status_make_install = pairscan.pair_found,
                                    !.pc = "status_amazon_s3_upload"]
            /\ pairscan' = Idle
    /\ UNCHANGED <<firstrun, log, vera, cppcheck, format, pep8, makebuild,
                   testsuite, rc, changed, printable>>

\* Mutant: the upload flag is the presence of the message, not negated.
MainStatusAmazonS3Upload_NotNegated ==
    /\ main.pc = "status_amazon_s3_upload"
    /\ main' = [main EXCEPT
           !.status_amazon_s3_upload = Some(is_message_in_logfile("MSGBLD0330")),
           !.pc = "summary_vera"]
    /\ UNCHANGED <<firstrun, log, pairscan, vera, cppcheck, format, pep8,
                   makebuild, testsuite, rc, changed, printable>>

\* status_amazon_s3_upload = not is_message_in_logfile(...)
MainStatusAmazonS3Upload ==
    /\ main.pc = "status_amazon_s3_upload"
    /\ main' = [main EXCEPT
           !.status_amazon_s3_upload = Some(~is_message_in_logfile("MSGBLD0330")),
           !.pc = "summary_vera"]
    /\ UNCHANGED <<firstrun, log, pairscan, vera, cppcheck, format, pep8,
                   makebuild, testsuite, rc, changed, printable>>

\* summary_vera = msg_summary_vera(...)
MainSummaryVera ==
    /\ main.pc = "summary_vera"
    /\ vera.pc \in {"idle", "done"}
    /\ IF vera.pc = "idle"
       THEN /\ vera' = VeraInit
            /\ UNCHANGED main
       ELSE /\ main' = [main EXCEPT !.summary_vera = vera.all_vera_msgs,
                                    !.pc = "summary_cppcheck"]
            /\ vera' = Idle
    /\ UNCHANGED <<firstrun, log, pairscan, cppcheck, format, pep8, makebuild,
                   testsuite, rc, changed, printable>>

\* summary_cppcheck = msg_summary_cppcheck(...)
MainSummaryCppcheck ==
    /\ main.pc = "summary_cppcheck"
    /\ cppcheck.pc \in {"idle", "done"}
    /\ IF cppcheck.pc = "idle"
       THEN /\ cppcheck' = CppcheckInit
            /\ UNCHANGED main
       ELSE /\ main' = [main EXCEPT !.summary_cppcheck = cppcheck.all_cppcheck_msgs,
                                    !.pc = "summary_format"]
            /\ cppcheck' = Idle
    /\ UNCHANGED <<firstrun, log, pairscan, vera, format, pep8, makebuild,
                   testsuite, rc, changed, printable>>

\* summary_format = msg_summary_format(...)
MainSummaryFormat ==
    /\ main.pc = "summary_format"
    /\ format.pc \in {"idle", "done"}
    /\ IF format.pc = "idle"
       THEN /\ format' = FormatInit
            /\ UNCHANGED main
       ELSE /\ main' = [main EXCEPT !.summary_format = format.all_format_msgs,
                                    !.pc = "summary_pep8"]
            /\ format' = Idle
    /\ UNCHANGED <<firstrun, log, pairscan, vera, cppcheck, pep8, makebuild,
                   testsuite, rc, changed, printable>>

\* summary_pep8 = msg_summary_pep8(...)
MainSummaryPep8 ==
    /\ main.pc = "summary_pep8"
    /\ pep8.pc \in {"idle", "done"}
    /\ IF pep8.pc = "idle"
       THEN /\ pep8' = Pep8Init
            /\ UNCHANGED main
       ELSE /\ main' = [main EXCEPT !.summary_pep8 = pep8.all_pep8_msgs,
                                    !.pc = "makebuild_summary"]
            /\ pep8' = Idle
    /\ UNCHANGED <<firstrun, log, pairscan, vera, cppcheck, format, makebuild,
                   testsuite, rc, changed, printable>>

\* status_make, number_of_errors, ... = makebuild_summary(...)
MainMakebuildSummary ==
    /\ main.pc = "makebuild_summary"
    /\ makebuild.pc \in {"idle", "done"}
    /\ IF makebuild.pc = "idle"
       THEN /\ makebuild' = MakeInit
            /\ UNCHANGED main
       ELSE /\ LET r == Val(makebuild.result)
               IN  main' = [main EXCEPT
                       !.status_make = r.status,
                       !.number_of_errors = r.number_of_errors,
                       !.summary_errors = r.summary_errors,
                       !.number_of_warnings = r.number_of_warnings,
                       !.summary_warnings = r.summary_warnings,
                       !.pc = "testsuite_results"]
            /\ makebuild' = Idle
    /\ UNCHANGED <<firstrun, log, pairscan, vera, cppcheck, format, pep8,
                   testsuite, rc, changed, printable>>

\* status_tests, number_of_tests_total, number_of_tests_failed =
\* testsuite_results(...); an exception of the call ends the process with
\* a traceback and the exit status 1.
MainTestsuiteResults ==
    /\ main.pc = "testsuite_results"
    /\ testsuite.pc \in {"idle", "done", "raised"}
    /\ IF testsuite.pc = "idle"
       THEN /\ testsuite' = TestsInit
            /\ UNCHANGED main
       ELSE /\ main' = IF testsuite.pc = "raised"
                       THEN [main EXCEPT !.pc = "raised", !.exit_status = Some(1)]
                       ELSE [main EXCEPT
                                !.status_tests = testsuite.status_tests,
                                !.number_of_tests_total = testsuite.total_number_of_tests,
                                !.number_of_tests_failed = testsuite.number_of_tests_failed,
                                !.pc = "exit_code"]
            /\ testsuite' = Idle
    /\ UNCHANGED <<firstrun, log, pairscan, vera, cppcheck, format, pep8,
                   makebuild, rc, changed, printable>>

\* exit_code = build_return_code(...)
MainExitCode ==
    /\ main.pc = "exit_code"
    /\ main' = [main EXCEPT
           !.exit_code = Some(ExitCodeOf(main)),
           !.pc = "print"]
    /\ UNCHANGED <<firstrun, log, pairscan, vera, cppcheck, format, pep8, makebuild,
                   testsuite, rc, changed, printable>>

\* The arguments of the call of printable_summary in the run.
MainPrintArgs ==
    [list_of_changed_files |-> main.changed_files,
     status_vera_init |-> main.status_vera_init,
     status_cppcheck_init |-> main.status_cppcheck_init,
     status_format_init |-> main.status_format_init,
     status_cmake_configure |-> main.status_cmake_configure,
     status_make |-> main.status_make,
     status_make_install |-> main.status_make_install,
     status_amazon_s3_upload |-> main.status_amazon_s3_upload,
     status_tests |-> main.status_tests,
     summary_vera |-> main.summary_vera,
     summary_cppcheck |-> main.summary_cppcheck,
     summary_format |-> main.summary_format,
     summary_pep8 |-> main.summary_pep8,
     summary_errors |-> main.summary_errors,
     summary_warnings |-> main.summary_warnings,
     number_of_errors |-> main.number_of_errors,
     number_of_warnings |-> main.number_of_warnings,
     number_of_tests_total |-> main.number_of_tests_total,
     number_of_tests_failed |-> main.number_of_tests_failed,
     exit_code |-> Val(main.exit_code)]

\* Mutant: the report is given the exit code 0.
MainPrint_ReportOfSuccess ==
    /\ main.pc = "print"
    /\ LET build_summary == SummaryOf([MainPrintArgs EXCEPT !.exit_code = 0])
       IN  main' = IF build_summary = None
                   THEN [main EXCEPT !.pc = "raised", !.exit_status = Some(1)]
                   ELSE [main EXCEPT !.stdout = build_summary, !.pc = "exit"]
    /\ UNCHANGED <<firstrun, log, pairscan, vera, cppcheck, format, pep8, makebuild,
                   testsuite, rc, changed, printable>>

\* print(printable_summary(...)); the AssertionError of the rendering ends
\* the process with a traceback and the exit status 1.
MainPrint ==
    /\ main.pc = "print"
    /\ LET build_summary == SummaryOf(MainPrintArgs)
       IN  main' = IF build_summary = None
                   THEN [main EXCEPT !.pc = "raised", !.exit_status = Some(1)]
                   ELSE [main EXCEPT !.stdout = build_summary, !.pc = "exit"]
    /\ UNCHANGED <<firstrun, log, pairscan, vera, cppcheck, format, pep8, makebuild,
                   testsuite, rc, changed, printable>>

\* exit(exit_code)
MainExit ==
    /\ main.pc = "exit"
    /\ main' = [main EXCEPT !.exit_status = main.exit_code, !.pc = "exited"]
    /\ UNCHANGED <<firstrun, log, pairscan, vera, cppcheck, format, pep8, makebuild,
                   testsuite, rc, changed, printable>>

\* Mutant: the second run reads a log that lost its last line.
MainRunAgain_LogCutShort ==
    /\ main.pc \in {"exited", "raised"}
    /\ firstrun = None
    /\ firstrun' = Some([log |-> log, main |-> main])
    /\ main' = MainInit
    /\ log' = SubSeq(log, 1, Len(log) - 1)
    /\ UNCHANGED <<pairscan, vera, cppcheck, format, pep8, makebuild,
                   testsuite, rc, changed, printable>>

\* The script is run once more on the same log file after its first run
\* has ended: a new process, whose locals are those of MainInit.  firstrun
\* keeps the log and the locals, the output and the exit status of the
\* first run.
MainRunAgain ==
    /\ main.pc \in {"exited", "raised"}
    /\ firstrun = None
    /\ firstrun' = Some([log |-> log, main |-> main])
    /\ main' = MainInit
    /\ UNCHANGED <<log, pairscan, vera, cppcheck, format, pep8, makebuild,
                   testsuite, rc, changed, printable>>

\* The log of a build is the sequence of the parts its phases write.
\* The parts a phase framed by a pair of markers can write: nothing
\* (skipped), the start alone (failed), both (passed), and the end before
\* the start.
PairBlocks(s, e) ==
    { <<>>, << <<s>> >>, << <<s>>, <<e>> >>, << <<e>>, <<s>> >> }

\* The parts of a per-file tool: nothing, the file a.cpp without message or
\* with one message, another file with one message.
PerFileBlocks(s, e, item, f) ==
    { <<>>, << <<s, f>>, <<e>> >>, << <<s, f>>, item, <<e>> >>,
      << <<s, "b.cpp">>, item, <<e>> >> }

\* The parts of make and of the test suite.
MakeBlocks(s, e) ==
    { <<>>, << <<s>> >>, << <<s>>, <<e>> >>,
      << <<s>>, <<"foo.cpp", ": error:", "bad">>, <<e>> >>,
      << <<s>>, <<"bar.cpp", ": warning:", "unused">>, <<e>> >> }
TestsBlocks(s, e) ==
    { <<>>, << <<s>> >>, TestsScenario(s, e),
      << <<s>>, <<"NEST Testsuite Summary">>, <<"Total number of tests:", "42">>,
         <<"Failed", "1", "of", "42">>, <<e>> >>,
      << <<s>>, <<"NEST Testsuite Summary">>, <<"Failed">>, <<e>> >> }

\* The phases of a build in the order of the log.
Phases == 1..13

\* The parts phase n can write.
BlocksOf(n) ==
    CASE n = 1 -> { <<>>,
                    << <<"MSGBLD0070">>, <<"MSGBLD0095", "a.cpp">>, <<"MSGBLD0100">> >>,
                    << <<"MSGBLD0070">>, <<"MSGBLD0095", "a.cpp">> >>,
                    << <<"MSGBLD0100">>, <<"MSGBLD0070">>, <<"MSGBLD0095", "a.cpp">> >> }
      [] n = 2 -> PairBlocks("MSGBLD0010", "MSGBLD0020")
      [] n = 3 -> PairBlocks("MSGBLD0030", "MSGBLD0040")
      [] n = 4 -> PairBlocks("MSGBLD0050", "MSGBLD0060")
      [] n = 5 -> PerFileBlocks("MSGBLD0130", "MSGBLD0140",
                                <<"MSGBLD0135", ":", "m1">>, "a.cpp")
      [] n = 6 -> PerFileBlocks("MSGBLD0150", "MSGBLD0160",
                                <<"MSGBLD0155", "(error)", "m1">>, "a.cpp")
      [] n = 7 -> PerFileBlocks("MSGBLD0170", "MSGBLD0180",
                                <<"MSGBLD0175", ":", "m1">>, "a.cpp")
      [] n = 8 -> PerFileBlocks("MSGBLD0190", "MSGBLD0200",
                                <<"MSGBLD0195", ":", "m1">>, "b.py")
      [] n = 9 -> PairBlocks("MSGBLD0230", "MSGBLD0240")
      [] n = 10 -> MakeBlocks("MSGBLD0250", "MSGBLD0260")
      [] n = 11 -> PairBlocks("MSGBLD0270", "MSGBLD0280")
      [] n = 12 -> TestsBlocks("MSGBLD0290", "MSGBLD0300")
      [] n = 13 -> { <<>>, << <<"MSGBLD0330">> >> }

\* The part phase n writes in a build where every phase passes, the
\* analysis finds nothing and the artifacts are uploaded.
PassedBlock(n) ==
    CASE n = 1 -> << <<"MSGBLD0070">>, <<"MSGBLD0095", "a.cpp">>, <<"MSGBLD0100">> >>
      [] n = 2 -> << <<"MSGBLD0010">>, <<"MSGBLD0020">> >>
      [] n = 3 -> << <<"MSGBLD0030">>, <<"MSGBLD0040">> >>
      [] n = 4 -> << <<"MSGBLD0050">>, <<"MSGBLD0060">> >>
      [] n = 5 -> << <<"MSGBLD0130", "a.cpp">>, <<"MSGBLD0140">> >>
      [] n = 6 -> << <<"MSGBLD0150", "a.cpp">>, <<"MSGBLD0160">> >>
      [] n = 7 -> << <<"MSGBLD0170", "a.cpp">>, <<"MSGBLD0180">> >>
      [] n = 8 -> << <<"MSGBLD0190", "b.py">>, <<"MSGBLD0200">> >>
      [] n = 9 -> << <<"MSGBLD0230">>, <<"MSGBLD0240">> >>
      [] n = 10 -> << <<"MSGBLD0250">>, <<"MSGBLD0260">> >>
      [] n = 11 -> << <<"MSGBLD0270">>, <<"MSGBLD0280">> >>
      [] n = 12 -> TestsScenario("MSGBLD0290", "MSGBLD0300")
      [] n = 13 -> <<>>

\* The logs of the phases n, n + 1, ... in which at most k phases write
\* another part than in the build that passes.
RECURSIVE LogsFrom(_, _)
LogsFrom(n, k) ==
    IF n \notin Phases THEN {<<>>}
    ELSE {PassedBlock(n) \o rest : rest \in LogsFrom(n + 1, k)}
         \cup (IF k = 0 THEN {}
               ELSE {b \o rest : b \in BlocksOf(n) \ {PassedBlock(n)},
                                 rest \in LogsFrom(n + 1, k - 1)})

InitMain ==
    /\ main = MainInit
    /\ log \in LogsFrom(1, MaxDeviations)
    /\ pairscan = Idle /\ vera = Idle /\ cppcheck = Idle /\ format = Idle
    /\ pep8 = Idle /\ makebuild = Idle /\ testsuite = Idle /\ rc = Idle
    /\ changed = Idle /\ printable = Idle
    /\ firstrun = None

NextMain ==
    \/ MainChangedFiles \/ MainStatusVeraInit \/ MainStatusCppcheckInit
    \/ MainStatusFormatInit \/ MainStatusCmakeConfigure \/ MainStatusMakeInstall
    \/ MainStatusAmazonS3Upload \/ MainSummaryVera \/ MainSummaryCppcheck
    \/ MainSummaryFormat \/ MainSummaryPep8 \/ MainMakebuildSummary
    \/ MainTestsuiteResults \/ MainExitCode \/ MainPrint \/ MainExit
    \/ ChangedCall \/ ChangedStep \/ ChangedReturn \/ PairStep \/ PairReturn
    \/ VeraStep \/ VeraReturn \/ CppcheckStep \/ CppcheckReturn
    \/ FormatStep \/ FormatReturn \/ Pep8Step \/ Pep8Return
    \/ MakeStep \/ MakeReturn \/ TestsStep \/ TestsReturn

SpecMain == InitMain /\ [][NextMain]_vars

\* Lines that hold the markers of every extractor at once, so that a log
\* of three lines makes every extractor open its section, count an item and
\* close the section; the banner and the failed tests of the test suite.
InterleaveStart ==
    <<"MSGBLD0070", "MSGBLD0130", "MSGBLD0150", "MSGBLD0170", "MSGBLD0190",
      "MSGBLD0250", "MSGBLD0290", "a.cpp">>
InterleaveItem ==
    <<"foo.cpp", ": error:", "MSGBLD0095", "MSGBLD0135", "MSGBLD0155",
      "MSGBLD0175", "MSGBLD0195", "(error)", "m1">>
InterleaveEnd ==
    <<"MSGBLD0100", "MSGBLD0140", "MSGBLD0160", "MSGBLD0180", "MSGBLD0200",
      "MSGBLD0260", "MSGBLD0300">>
InterleaveLines == {InterleaveStart, InterleaveItem, InterleaveEnd}

\* Longest log of arbitrary lines read by the interleaved extractors.
MaxInterleaveLen == 2

InterleaveLogs ==
    UNION {[1..n -> InterleaveLines] : n \in 0..MaxInterleaveLen}
        \cup { <<InterleaveStart, InterleaveItem, InterleaveEnd>>,
               <<InterleaveStart, <<"NEST Testsuite Summary">>,
                 <<"Failed", "1", "of", "42">>, InterleaveEnd>> }

\* Every extractor has been called on the same log and has read no line
\* yet; list_of_changed_files is about to call the pair scanner.
InitInterleave ==
    /\ log \in InterleaveLogs
    /\ changed = ChangedInit /\ pairscan = Idle
    /\ vera = VeraInit /\ cppcheck = CppcheckInit
    /\ format = FormatInit /\ pep8 = Pep8Init
    /\ makebuild = MakeInit /\ testsuite = TestsInit
    /\ rc = Idle /\ printable = Idle /\ main = Idle
    /\ firstrun = None

\* The per-line steps of the extractors in any order.
NextInterleave ==
    \/ ChangedCall \/ PairStep \/ PairReturn \/ ChangedStep \/ ChangedReturn
    \/ VeraStep \/ VeraReturn \/ CppcheckStep \/ CppcheckReturn
    \/ FormatStep \/ FormatReturn \/ Pep8Step \/ Pep8Return
    \/ MakeStep \/ MakeReturn \/ TestsStep \/ TestsReturn

SpecInterleave == InitInterleave /\ [][NextInterleave]_vars

\* Two runs of the script on one log.
NextTwice == NextMain \/ MainRunAgain

SpecTwice == InitMain /\ [][NextTwice]_vars

(***************************************************************************)
(* Properties                                                              *)
(***************************************************************************)

\* Lines of the log that hold the marker.
LinesWith(msg) == {k \in DOMAIN log : is_message(log[k], msg)}

\* The file whose per-file section is open when line k of the log is read
\* (None when no section is open): a section is opened by a line with the
\* start marker s read while no section is open, and closed by a line
\* with the end marker e that is no item line.
RECURSIVE OpenFileBefore(_, _, _, _)
OpenFileBefore(k, s, e, m) ==
    IF k = 1 THEN None
    ELSE LET prev == OpenFileBefore(k - 1, s, e, m)
             line == log[k - 1]
         IN  IF prev = None
             THEN IF is_message(line, s) THEN Some(LastWord(line)) ELSE None
             ELSE IF ~is_message(line, m) /\ is_message(line, e) THEN None
             ELSE prev

\* The count a message table stores under file F and message text M.
Stored(summary, F, M) ==
    IF summary = None THEN 0
    ELSE IF F \notin DOMAIN Val(summary) THEN 0
    ELSE DictGet(Val(summary)[F], M, 0)

\* The mandatory phases all have the status True.
MandatoryTrue(a) ==
    /\ a.status_cmake_configure = Some(TRUE)
    /\ a.status_make = Some(TRUE)
    /\ a.status_make_install = Some(TRUE)
    /\ a.status_tests = Some(TRUE)

\* C1: build_return_code returns 0 if and only if the four mandatory phases
\* have the status True and the VERA++, clang-format and PEP8 tables hold no
\* message, whatever cppcheck reports; otherwise it returns 1.
C1_ExitCodeLaw ==
    rc.pc = "done" =>
        /\ rc.exit_code \in {Some(0), Some(1)}
        /\ rc.exit_code = Some(0) <=>
              /\ MandatoryTrue(rc.args)
              /\ number_of_msgs_in_summary(rc.args.summary_vera) = 0
              /\ number_of_msgs_in_summary(rc.args.summary_format) = 0
              /\ number_of_msgs_in_summary(rc.args.summary_pep8) = 0

\* C2: with the other arguments fixed, build_return_code returns the same
\* exit code for every cppcheck message table and every cppcheck
\* initialization status.
C2_CppcheckExcluded ==
    rc.pc = "done" =>
        \A t \in RcTables, st \in Tristate :
            ExitCodeOf([rc.args EXCEPT !.summary_cppcheck = t,
                                       !.status_cppcheck_init = st])
                = Val(rc.exit_code)

\* C3: is_message_pair_in_logfile honours an end marker only after the
\* start marker: without a start marker in the log the result is None, and
\* end markers that all stand before the first start marker do not make
\* the result True.
C3_EndOnlyAfterStart ==
    pairscan.pc = "done" =>
        LET S == LinesWith(pairscan.msg_start_of_section)
            E == LinesWith(pairscan.msg_end_of_section)
        IN  /\ S = {} => pairscan.pair_found = None
            /\ (S # {} /\ \A k \in E : k < SetMin(S))
                   => pairscan.pair_found # Some(TRUE)

\* C4: a log with the start marker on some line and the end marker on no
\* line makes is_message_pair_in_logfile return False.
C4_StartedNotCompleted ==
    ( /\ pairscan.pc = "done"
      /\ LinesWith(pairscan.msg_start_of_section) # {}
      /\ LinesWith(pairscan.msg_end_of_section) = {} )
        => pairscan.pair_found = Some(FALSE)

\* C4 witness: a log of two or more lines with the start marker and without
\* the end marker has been scanned to its end and the result is False.
C4_Witness ==
    /\ pairscan.pc = "done"
    /\ Len(log) >= 2
    /\ LinesWith(pairscan.msg_start_of_section) # {}
    /\ LinesWith(pairscan.msg_end_of_section) = {}
    /\ pairscan.pair_found = Some(FALSE)

\* C5: makebuild_summary and testsuite_results return the status False for
\* a log whose section start marker appears and whose section end marker
\* never appears.
C5_SectionStartedIsFalse ==
    /\ ( /\ makebuild.pc = "done"
         /\ LinesWith("MSGBLD0250") # {}
         /\ LinesWith("MSGBLD0260") = {} )
           => Val(makebuild.result).status = Some(FALSE)
    /\ ( /\ testsuite.pc = "done"
         /\ LinesWith("MSGBLD0290") # {}
         /\ LinesWith("MSGBLD0300") = {} )
           => testsuite.status_tests = Some(FALSE)

\* C6: makebuild_summary returns five times None for every log without the
\* start marker of the make section.
C6_NoStartAllNone ==
    (makebuild.pc = "done" /\ LinesWith("MSGBLD0250") = {})
        => makebuild.result = Some(MakeResult(None, None, None, None, None))

\* C7: each of the four per-file functions returns None exactly when no
\* line of the log holds its start marker, and a table otherwise, with or
\* without an end marker in the log.
C7_NoneIffNoStart ==
    /\ vera.pc = "done" =>
          (vera.all_vera_msgs = None <=> LinesWith("MSGBLD0130") = {})
    /\ cppcheck.pc = "done" =>
          (cppcheck.all_cppcheck_msgs = None <=> LinesWith("MSGBLD0150") = {})
    /\ format.pc = "done" =>
          (format.all_format_msgs = None <=> LinesWith("MSGBLD0170") = {})
    /\ pep8.pc = "done" =>
          (pep8.all_pep8_msgs = None <=> LinesWith("MSGBLD0190") = {})

\* C7 witness: msg_summary_pep8 has returned an empty-handed table for a log
\* with its start marker and without its end marker.
C7_Witness ==
    /\ pep8.pc = "done"
    /\ LinesWith("MSGBLD0190") # {}
    /\ LinesWith("MSGBLD0200") = {}
    /\ pep8.all_pep8_msgs # None
    /\ number_of_msgs_in_summary(pep8.all_pep8_msgs) = 0

\* The number of item lines with the message text M read inside the
\* sections opened for file F; Text gives the message text of a line and
\* Kept tells whether the function counts the line at all.
ItemLinesFor(F, M, s, e, m, Text(_), Kept(_)) ==
    Cardinality({k \in DOMAIN log :
                    /\ OpenFileBefore(k, s, e, m) = Some(F)
                    /\ is_message(log[k], m)
                    /\ Kept(log[k])
                    /\ Text(log[k]) = M})

CountsExact(summary, s, e, m, Text(_), Kept(_)) ==
    \A j \in LinesWith(s), k \in LinesWith(m) :
        Stored(summary, LastWord(log[j]), Text(log[k]))
            = ItemLinesFor(LastWord(log[j]), Text(log[k]), s, e, m, Text, Kept)

KeptAlways(line) == TRUE

\* The lines of cppcheck that pass its three filters.
KeptByCppcheck(line) ==
    /\ ~is_message(line, "Checking")
    /\ ~is_message(FromFirstParen(line), "is never used")
    /\ ~is_message(FromFirstParen(line), "(information)")

\* C8: the count a per-file function stores under file F and message text
\* M is the number of item lines with text M read inside the sections
\* opened for F, also when F opens more than one section.
C8_CountsExact ==
    /\ vera.pc = "done" =>
          CountsExact(vera.all_vera_msgs, "MSGBLD0130", "MSGBLD0140",
                      "MSGBLD0135", AfterLastColon, KeptAlways)
    /\ cppcheck.pc = "done" =>
          CountsExact(cppcheck.all_cppcheck_msgs, "MSGBLD0150", "MSGBLD0160",
                      "MSGBLD0155", FromFirstParen, KeptByCppcheck)
    /\ format.pc = "done" =>
          CountsExact(format.all_format_msgs, "MSGBLD0170", "MSGBLD0180",
                      "MSGBLD0175", AfterLastColon, KeptAlways)
    /\ pep8.pc = "done" =>
          CountsExact(pep8.all_pep8_msgs, "MSGBLD0190", "MSGBLD0200",
                      "MSGBLD0195", AfterLastColon, KeptAlways)

\* Every start line of the log, or every start line read while no section
\* is open, has its file name as a key of the table.
StartFilesAreKeys(summary, s, e, m, onlyOutside) ==
    \A k \in LinesWith(s) :
        (onlyOutside => OpenFileBefore(k, s, e, m) = None)
            => (summary # None /\ LastWord(log[k]) \in DOMAIN Val(summary))

StartFilesAreKeysAll(onlyOutside) ==
    /\ vera.pc = "done" =>
          StartFilesAreKeys(vera.all_vera_msgs, "MSGBLD0130", "MSGBLD0140",
                            "MSGBLD0135", onlyOutside)
    /\ cppcheck.pc = "done" =>
          StartFilesAreKeys(cppcheck.all_cppcheck_msgs, "MSGBLD0150",
                            "MSGBLD0160", "MSGBLD0155", onlyOutside)
    /\ format.pc = "done" =>
          StartFilesAreKeys(format.all_format_msgs, "MSGBLD0170", "MSGBLD0180",
                            "MSGBLD0175", onlyOutside)
    /\ pep8.pc = "done" =>
          StartFilesAreKeys(pep8.all_pep8_msgs, "MSGBLD0190", "MSGBLD0200",
                            "MSGBLD0195", onlyOutside)

\* C9 as stated: every line with the start marker of a per-file function
\* has its file name as a key of the returned table.
C9_EveryStartFileIsKey == StartFilesAreKeysAll(FALSE)

\* C9 as amended: every line with the start marker that is read while no
\* per-file section is open has its file name as a key of the returned
\* table, also when no message follows it.
C9_StartOutsideSectionIsKey == StartFilesAreKeysAll(TRUE)

\* C9 witness: msg_summary_pep8 has returned a table with the entries of
\* two files, both without a message.
C9_Witness ==
    /\ pep8.pc = "done"
    /\ Len(log) >= 3
    /\ pep8.all_pep8_msgs # None
    /\ DOMAIN Val(pep8.all_pep8_msgs) = {"a.cpp", "b.cpp"}
    /\ number_of_msgs_in_summary(pep8.all_pep8_msgs) = 0

\* No count of the cppcheck table grows in this step.
CppcheckAddsNothing ==
    cppcheck'.all_cppcheck_msgs # None =>
        \A F \in DOMAIN Val(cppcheck'.all_cppcheck_msgs) :
            \A M \in DOMAIN Val(cppcheck'.all_cppcheck_msgs)[F] :
                Stored(cppcheck'.all_cppcheck_msgs, F, M)
                    <= Stored(cppcheck.all_cppcheck_msgs, F, M)

\* The line msg_summary_cppcheck reads next.
CppcheckReads(line) ==
    /\ cppcheck.pc = "scan"
    /\ cppcheck.i <= Len(log)
    /\ line = log[cppcheck.i]

\* C10 as stated: a line that holds "Checking", "is never used" or
\* "(information)" anywhere adds to no count of the cppcheck table.
C10_FilterAnywhere ==
    [][ (\E line \in {log[k] : k \in DOMAIN log} :
            /\ CppcheckReads(line)
            /\ \/ is_message(line, "Checking")
               \/ is_message(line, "is never used")
               \/ is_message(line, "(information)"))
        => CppcheckAddsNothing ]_vars

\* C10 as amended: a line that holds "Checking" or "(information)"
\* anywhere, or "is never used" at or after its first opening parenthesis,
\* adds to no count of the cppcheck table.
C10_FilterInMessage ==
    [][ (\E line \in {log[k] : k \in DOMAIN log} :
            /\ CppcheckReads(line)
            /\ \/ is_message(line, "Checking")
               \/ is_message(line, "(information)")
               \/ \E j, k \in DOMAIN line :
                     j <= k /\ HasParen(line[j]) /\ line[k] = "is never used")
        => CppcheckAddsNothing ]_vars

\* C10 witness: msg_summary_cppcheck has read, inside a section, a line
\* with 'is never used' in its message and a line with 'Checking', and the
\* table it returns holds the one other message only.
C10_Witness ==
    /\ cppcheck.pc = "done"
    /\ cppcheck.all_cppcheck_msgs # None
    /\ number_of_msgs_in_summary(cppcheck.all_cppcheck_msgs) = 1
    /\ \E k \in DOMAIN log :
          /\ OpenFileBefore(k, "MSGBLD0150", "MSGBLD0160", "MSGBLD0155") # None
          /\ log[k] = <<"MSGBLD0155", "(style)", "is never used">>
    /\ \E k \in DOMAIN log :
          /\ OpenFileBefore(k, "MSGBLD0150", "MSGBLD0160", "MSGBLD0155") # None
          /\ log[k] = <<"MSGBLD0155", "Checking", "a.cpp">>

\* The file names of the item lines k, k+1, ..., upper - 1 of the log.
RECURSIVE ItemFiles(_, _, _)
ItemFiles(k, upper, m) ==
    IF k >= upper THEN <<>>
    ELSE IF is_message(log[k], m)
         THEN <<LastWord(log[k])>> \o ItemFiles(k + 1, upper, m)
         ELSE ItemFiles(k + 1, upper, m)

\* The changed-files section is completed: a line with the start marker
\* and, at or after it, a line with the end marker.
ChangedCompleted ==
    \E j \in LinesWith("MSGBLD0070"), k \in LinesWith("MSGBLD0100") : j <= k

FilesUpTo(Ends) ==
    LET j == SetMin(LinesWith("MSGBLD0070"))
        E == {k \in Ends : k > j}
    IN  ItemFiles(j + 1, IF E = {} THEN Len(log) + 1 ELSE SetMin(E), "MSGBLD0095")

\* C12 as stated: for a completed section the list holds the file names
\* of the item lines after the first start line and before the first
\* line with the end marker after it, in the order of the log, duplicates
\* kept.
C12_FilesOfSection ==
    (changed.pc = "done" /\ ChangedCompleted)
        => changed.changed_files = FilesUpTo(LinesWith("MSGBLD0100"))

\* C12 as amended: the section ends at the first line after the start
\* line that holds the end marker and not the item marker.
C12_FilesUpToPlainEnd ==
    (changed.pc = "done" /\ ChangedCompleted)
        => changed.changed_files =
              FilesUpTo(LinesWith("MSGBLD0100") \ LinesWith("MSGBLD0095"))

\* C12 witness: a completed section that ends at a line with the end
\* marker alone, with the same file listed twice.
C12_Witness ==
    /\ changed.pc = "done"
    /\ ChangedCompleted
    /\ changed.changed_files = <<"a.cpp", "a.cpp">>
    /\ changed.i = Len(log) + 1
    /\ log[Len(log)] = <<"MSGBLD0100">>

\* The three values testsuite_results returns.
TestsResult ==
    <<testsuite.status_tests, testsuite.total_number_of_tests,
      testsuite.number_of_tests_failed>>

\* C13: testsuite_results returns (None, None, None), and does not raise,
\* for every log without a line that holds the start marker, whatever
\* end marker, banner, total or Failed lines the log holds.
C13_NoStartThreeNone ==
    LinesWith("MSGBLD0290") = {}
        => /\ testsuite.pc # "raised"
           /\ testsuite.pc = "done" => TestsResult = <<None, None, None>>

\* C13 witness: a log without start marker that holds the end marker, the
\* banner, a total line and a Failed line has been read to its end.
C13_Witness ==
    /\ testsuite.pc = "done"
    /\ LinesWith("MSGBLD0290") = {}
    /\ LinesWith("MSGBLD0300") # {}
    /\ LinesWith("NEST Testsuite Summary") # {}
    /\ LinesWith("Total number of tests:") # {}
    /\ LinesWith("Failed") # {}
    /\ TestsResult = <<None, None, None>>

\* The end-marker lines at or after the first start-marker line.
TestsEndLines ==
    IF LinesWith("MSGBLD0290") = {} THEN {}
    ELSE {k \in LinesWith("MSGBLD0300") : k >= SetMin(LinesWith("MSGBLD0290"))}

\* C14: when testsuite_results returns from a log with an end marker
\* inside the test section, it stopped at the first such line and the
\* status is True if and only if the number of failed tests is 0 (False
\* also when there is no number); the log with "Total number of tests: 42"
\* and "Failed 0 of 42" gives (True, 42, 0).
C14_StatusAtEnd ==
    /\ (testsuite.pc = "done" /\ TestsEndLines # {})
           => /\ testsuite.i = SetMin(TestsEndLines) + 1
              /\ testsuite.status_tests =
                     Some(testsuite.number_of_tests_failed = Some(0))
    /\ (testsuite.pc = "done" /\ log = TestsScenario("MSGBLD0290", "MSGBLD0300"))
           => TestsResult = <<Some(TRUE), Some(42), Some(0)>>

\* C14 witness: the log of the scenario has been read and the result is
\* (True, 42, 0).
C14_Witness ==
    /\ testsuite.pc = "done"
    /\ log = TestsScenario("MSGBLD0290", "MSGBLD0300")
    /\ TestsResult = <<Some(TRUE), Some(42), Some(0)>>

\* C14 witness of the other case: the section ends without a Failed line
\* and the status is False.
C14_WitnessNoFailedLine ==
    /\ testsuite.pc = "done"
    /\ TestsEndLines # {}
    /\ testsuite.number_of_tests_failed = None
    /\ testsuite.status_tests = Some(FALSE)

\* The number of lines j..k of the log that hold msg.
CountLines(j, k, msg) == Cardinality({n \in LinesWith(msg) : j <= n /\ n <= k})

\* C15: for a log with a start-marker line followed by an end-marker line,
\* makebuild_summary returns at the first end-marker line after the first
\* start-marker line, with the number of ": error:" lines from that start
\* line through that end line, the number of ": warning:" lines likewise,
\* and the status True if and only if there is no error; start, the line
\* "foo.cpp: error: bad", end gives False, 1, {foo.cpp: 1}.
C15_CountsOfFirstSection ==
    LET S == LinesWith("MSGBLD0250")
        j == SetMin(S)
        E == {k \in LinesWith("MSGBLD0260") : k >= j}
        k == SetMin(E)
        r == Val(makebuild.result)
    IN  /\ (makebuild.pc = "done" /\ S # {} /\ E # {})
               => /\ makebuild.i = k + 1
                  /\ r.number_of_errors = Some(CountLines(j, k, ": error:"))
                  /\ r.number_of_warnings = Some(CountLines(j, k, ": warning:"))
                  /\ r.status = Some(CountLines(j, k, ": error:") = 0)
        /\ (/\ makebuild.pc = "done"
            /\ log = << <<"MSGBLD0250">>, <<"foo.cpp", ": error:", "bad">>,
                        <<"MSGBLD0260">> >>)
               => /\ r.status = Some(FALSE)
                  /\ r.number_of_errors = Some(1)
                  /\ r.summary_errors = Some(DictSet(EmptyDict, <<"foo.cpp">>, 1))

\* C19: inside the results part of the test section, a line with "Failed"
\* and no word of digits, or a line with "Total number of tests:" whose
\* last word is no integer, makes testsuite_results raise; after that it
\* takes no step and returns no result.
C19_MalformedNumberRaises ==
    [][LET line == log[testsuite.i]
           malformed ==
               \/ /\ is_message(line, "Failed")
                  /\ \A k \in DOMAIN line : ~IsDigit(line[k])
               \/ /\ is_message(line, "Total number of tests:")
                  /\ ~IsInt(LastWord(line))
       IN  /\ testsuite.pc # "raised"
           /\ (/\ testsuite.pc = "scan"
               /\ testsuite.i <= Len(log)
               /\ testsuite.in_installcheck_section
               /\ testsuite.in_results_section
               /\ malformed) => testsuite'.pc = "raised"]_vars

\* C19 witness: testsuite_results has raised on a "Failed" line without a
\* number, and in another run on a total that is no integer.
C19_Witness ==
    /\ testsuite.pc = "raised"
    /\ log[testsuite.i - 1] \in {<<"Failed">>, <<"Total number of tests:", "many">>}
    /\ testsuite.status_tests = None

\* C16: a VERA++ or clang-format initialization status of None gives the
\* exit code that True gives, a status of False gives 1, and a status of
\* None or False of configure, make, make install or the tests gives 1.
C16_SkippedIsNoFailure ==
    rc.pc = "done" =>
        LET a == rc.args IN
        /\ a.status_vera_init = None
               => rc.exit_code = Some(ExitCodeOf([a EXCEPT !.status_vera_init = Some(TRUE)]))
        /\ a.status_format_init = None
               => rc.exit_code = Some(ExitCodeOf([a EXCEPT !.status_format_init = Some(TRUE)]))
        /\ (a.status_vera_init = Some(FALSE) \/ a.status_format_init = Some(FALSE))
               => rc.exit_code = Some(1)
        /\ ~MandatoryTrue(a) => rc.exit_code = Some(1)

\* C16 witness: both initializations were skipped and the exit code is 0.
C16_Witness ==
    /\ rc.pc = "done"
    /\ rc.args.status_vera_init = None
    /\ rc.args.status_format_init = None
    /\ rc.exit_code = Some(0)

\* The tool labels under which file f has findings in the tables of a.
FindingsOf(a, f) ==
    {t \in {<<"VERA++ (MSGBLD0135):", a.summary_vera>>,
            <<"Cppcheck (MSGBLD0155):", a.summary_cppcheck>>,
            <<"clang-format (MSGBLD0175):", a.summary_format>>,
            <<"PEP8 (MSGBLD0195):", a.summary_pep8>>} :
        /\ t[2] # None
        /\ f \in DOMAIN Val(t[2])
        /\ number_of_msgs_for_file_in_summary(f, t[2]) > 0}

AnyMessages(a) ==
    \/ number_of_msgs_in_summary(a.summary_vera) > 0
    \/ number_of_msgs_in_summary(a.summary_cppcheck) > 0
    \/ number_of_msgs_in_summary(a.summary_format) > 0
    \/ number_of_msgs_in_summary(a.summary_pep8) > 0

\* C17: in a rendered report of tables with at least one message, the
\* section of the static analysis has one table for every file with a
\* finding of any tool, with the findings of each tool under its label,
\* and no table for a file without findings, whichever tables are None.
C17_OneBlockPerFileWithFindings ==
    (printable.pc = "done" /\ AnyMessages(printable.args)) =>
        LET a == printable.args
            report == Val(printable.build_summary)
            tables == Val(report.analysis)
        IN  /\ report.analysis # None
            /\ \A f \in RenderFiles \cup {"b.py"} :
                   IF FindingsOf(a, f) = {}
                   THEN \A b \in tables : b.file # f
                   ELSE /\ Cardinality({b \in tables : b.file = f}) = 1
                        /\ \A b \in tables : b.file = f =>
                               {<<b.sections[k][1], b.sections[k][2]>> :
                                    k \in DOMAIN b.sections}
                               = {<<t[1], Val(t[2])[f]>> : t \in FindingsOf(a, f)}

\* The VERA++, cppcheck and clang-format tables are given and differ in
\* their file names.
KeysDiffer(a) ==
    /\ a.summary_vera # None /\ a.summary_cppcheck # None /\ a.summary_format # None
    /\ \/ DOMAIN Val(a.summary_format) # DOMAIN Val(a.summary_cppcheck)
       \/ DOMAIN Val(a.summary_format) # DOMAIN Val(a.summary_vera)

\* C18 as stated: whenever the three tables are given and differ in their
\* file names, printable_summary raises and returns no report.
C18_KeysDifferRaises ==
    (printable.pc # "call" /\ KeysDiffer(printable.args))
        => (printable.pc = "raised" /\ printable.build_summary = None)

\* C18 as amended: the same when, in addition, one of the four tables
\* holds a message.
C18_KeysDifferWithMessagesRaises ==
    (printable.pc # "call" /\ KeysDiffer(printable.args) /\ AnyMessages(printable.args))
        => (printable.pc = "raised" /\ printable.build_summary = None)

\* C18 witness: the call has raised on three tables that differ in their
\* file names, the only message being one of PEP8.
C18_Witness ==
    /\ printable.pc = "raised"
    /\ KeysDiffer(printable.args)
    /\ number_of_msgs_in_summary(printable.args.summary_vera) = 0
    /\ number_of_msgs_in_summary(printable.args.summary_cppcheck) = 0
    /\ number_of_msgs_in_summary(printable.args.summary_format) = 0
    /\ number_of_msgs_in_summary(printable.args.summary_pep8) > 0

\* C20: a printed report ends with "BUILD TERMINATED SUCCESSFULLY" exactly
\* when the exit code is 0 and with "BUILD FAILED" exactly when it is 1,
\* and the process ends with the exit code that build_return_code
\* computed from the statuses and tables and that was given to the report.
C20_TrailerIsExitCode ==
    /\ main.stdout # None =>
           /\ main.exit_code \in {Some(0), Some(1)}
           /\ main.exit_code = Some(ExitCodeOf(main))
           /\ Val(main.stdout).trailer = "BUILD TERMINATED SUCCESSFULLY"
                  <=> main.exit_code = Some(0)
           /\ Val(main.stdout).trailer = "BUILD FAILED"
                  <=> main.exit_code = Some(1)
    /\ main.pc = "exited" =>
           /\ main.stdout # None
           /\ main.exit_status = main.exit_code

\* C20 witness: a run has ended with exit status 1 after a report that
\* ends with "BUILD FAILED".
C20_Witness ==
    /\ main.pc = "exited"
    /\ main.exit_status = Some(1)
    /\ Val(main.stdout).trailer = "BUILD FAILED"

\* The other case of C20: a run has ended with exit status 0 after a
\* report that ends with "BUILD TERMINATED SUCCESSFULLY".
C20_WitnessSuccess ==
    /\ main.pc = "exited"
    /\ main.exit_status = Some(0)
    /\ Val(main.stdout).trailer = "BUILD TERMINATED SUCCESSFULLY"

\* The phases framed by a pair of markers: the markers, the status the run
\* assigns and the row of the report.
PhaseRows ==
    LET report == Val(main.stdout) IN
    { <<"MSGBLD0010", "MSGBLD0020", main.status_vera_init, report.vera_init>>,
      <<"MSGBLD0030", "MSGBLD0040", main.status_cppcheck_init, report.cppcheck_init>>,
      <<"MSGBLD0050", "MSGBLD0060", main.status_format_init, report.format_init>>,
      <<"MSGBLD0230", "MSGBLD0240", main.status_cmake_configure, report.cmake_configure>>,
      <<"MSGBLD0250", "MSGBLD0260", main.status_make, report.make[1]>>,
      <<"MSGBLD0270", "MSGBLD0280", main.status_make_install, report.make_install>>,
      <<"MSGBLD0290", "MSGBLD0300", main.status_tests, report.make_installcheck[1]>> }

Occurrences(summary) ==
    IF summary = None THEN 0
    ELSE Cardinality({t \in (DOMAIN Val(summary)) \X RcMsgs \X (1..MaxCount) :
                         /\ t[2] \in DOMAIN Val(summary)[t[1]]
                         /\ t[3] <= Val(summary)[t[1]][t[2]]})

PairRank(p) == IF p = None THEN 0 ELSE IF p = Some(FALSE) THEN 1 ELSE 2

\* C26: while is_message_pair_in_logfile scans, the pair state never moves
\* back on the chain None, False, True; once it is True no line changes it;
\* once it is False a further start marker does not change it, and only a
\* line with the end marker does.
C26_PairStateMovesForward ==
    [][PairStep =>
         LET line == log[pairscan.i]
             old  == pairscan.pair_found
             new  == pairscan'.pair_found
         IN  /\ PairRank(new) >= PairRank(old)
             /\ Truthy(old) => new = old
             /\ (old = Some(FALSE) /\ ~is_message(line, pairscan.msg_end_of_section))
                    => new = old
             /\ (old = None /\ ~is_message(line, pairscan.msg_start_of_section)
                            /\ ~is_message(line, pairscan.msg_end_of_section))
                    => new = old]_vars

\* C26 witness: a finished scan that found the pair and then read one more
\* start marker and one more end marker.
C26_Witness ==
    /\ pairscan.pc = "done"
    /\ pairscan.pair_found = Some(TRUE)
    /\ Len(log) = 4
    /\ log[1] = <<pairscan.msg_start_of_section>>
    /\ log[2] = <<pairscan.msg_end_of_section>>
    /\ log[3] = <<pairscan.msg_start_of_section>>
    /\ log[4] = <<pairscan.msg_end_of_section>>

\* The sub-table of a file in a per-file table, empty without one.
SubTable(table, f) ==
    IF table = None THEN EmptyDict
    ELSE IF f \in DOMAIN Val(table) THEN Val(table)[f] ELSE EmptyDict

\* A line that closes a per-file section: a line with the end marker; with
\* plain, one that does not hold the item marker as well.
ClosingLine(line, e, m, plain) ==
    is_message(line, e) /\ (plain => ~is_message(line, m))

\* The start-marker lines before line k with no closing line after them
\* and before line k: the section is open at line k when there is one, and
\* the first of them opened it.
OpenersBefore(k, s, e, m, plain) ==
    { j \in 1..(k - 1) : /\ is_message(log[j], s)
                         /\ \A x \in (j + 1)..(k - 1) : ~ClosingLine(log[x], e, m, plain) }

\* What the claim says of the step that reads line k of a per-file scan.
PerFileStepOk(k, oldT, newT, newIn, newFile, s, e, m, plain) ==
    LET line    == log[k]
        J       == OpenersBefore(k, s, e, m, plain)
        open    == J # {}
        files   == (IF oldT = None THEN {} ELSE DOMAIN Val(oldT))
                       \cup (IF newT = None THEN {} ELSE DOMAIN Val(newT))
    IN  /\ is_message(line, m) =>
               \A f \in files :
                   SubTable(newT, f) # SubTable(oldT, f)
                       => (open /\ f = LastWord(log[SetMin(J)]))
        /\ (open /\ ClosingLine(line, e, m, plain)) => ~newIn
        /\ (~open /\ is_message(line, s)) =>
               /\ newIn
               /\ newFile = LastWord(line)
               /\ newT # None
               /\ LastWord(line) \in DOMAIN Val(newT)

\* The four per-file scans, each step held against PerFileStepOk; a step
\* never ends the scan.
PerFileStepsOk(plain) ==
    /\ VeraStep =>
           /\ vera'.pc = "scan"
           /\ PerFileStepOk(vera.i, vera.all_vera_msgs, vera'.all_vera_msgs,
                            vera'.in_a_vera_section, vera'.source_filename,
                            "MSGBLD0130", "MSGBLD0140", "MSGBLD0135", plain)
    /\ CppcheckStep =>
           /\ cppcheck'.pc = "scan"
           /\ PerFileStepOk(cppcheck.i, cppcheck.all_cppcheck_msgs,
                            cppcheck'.all_cppcheck_msgs,
                            cppcheck'.in_a_cppcheck_section, cppcheck'.source_filename,
                            "MSGBLD0150", "MSGBLD0160", "MSGBLD0155", plain)
    /\ FormatStep =>
           /\ format'.pc = "scan"
           /\ PerFileStepOk(format.i, format.all_format_msgs, format'.all_format_msgs,
                            format'.in_a_format_section, format'.source_filename,
                            "MSGBLD0170", "MSGBLD0180", "MSGBLD0175", plain)
    /\ Pep8Step =>
           /\ pep8'.pc = "scan"
           /\ PerFileStepOk(pep8.i, pep8.all_pep8_msgs, pep8'.all_pep8_msgs,
                            pep8'.in_a_pep8_section, pep8'.source_filename,
                            "MSGBLD0190", "MSGBLD0200", "MSGBLD0195", plain)

\* C27 as stated: in each per-file extractor an item line changes a count
\* only while a section is open, after a start-marker line and before the
\* next end-marker line, and only in the sub-table of the file that opened
\* the section; every end-marker line closes the open section without
\* ending the scan, and a later start-marker line opens a section for its
\* own file name.
C27_EveryEndLineCloses == [][PerFileStepsOk(FALSE)]_vars

\* C27, amended: the same, where the line that closes a section is an
\* end-marker line that does not hold the item marker; an item line that
\* also holds the end marker is read as an item and leaves the section open.
C27_PlainEndLineCloses == [][PerFileStepsOk(TRUE)]_vars

\* C27 witness: a finished scan that counted an item for a.cpp, closed the
\* section at the end marker and opened a section for b.cpp afterwards.
C27_Witness ==
    /\ vera.pc = "done"
    /\ log = << <<"MSGBLD0130", "a.cpp">>, <<"MSGBLD0135", ":", "m1">>,
                <<"MSGBLD0140">>, <<"MSGBLD0130", "b.cpp">> >>
    /\ vera.in_a_vera_section
    /\ vera.source_filename = "b.cpp"
    /\ DOMAIN Val(vera.all_vera_msgs) = {"a.cpp", "b.cpp"}
    /\ Val(vera.all_vera_msgs)["a.cpp"][<<"m1">>] = 1
    /\ Val(vera.all_vera_msgs)["b.cpp"] = EmptyDict

\* The sum of the values of a per-file table of makebuild_summary, 0 for None.
TableSum(table) ==
    IF table = None THEN 0 ELSE SumOver(Val(table), DOMAIN Val(table))

\* C28: when makebuild_summary returns a status that is not None, the
\* returned error count is the sum of the values of the returned error
\* table and the returned warning count is the sum of the values of the
\* returned warning table, a None table counting as 0.
C28_CountsAreTableSums ==
    (makebuild.pc = "done" /\ Val(makebuild.result).status # None) =>
        LET result == Val(makebuild.result)
        IN  /\ Val(result.number_of_errors) = TableSum(result.summary_errors)
            /\ Val(result.number_of_warnings) = TableSum(result.summary_warnings)

\* The lines up to line k that hold the start marker of the test suite.
TestsStartsUpTo(k) == {j \in 1..k : is_message(log[j], "MSGBLD0290")}

\* The banner lines up to line k that stand at or after a start line.
TestsBannersUpTo(k) ==
    {b \in 1..k : log[b] = <<"NEST Testsuite Summary">> /\ TestsStartsUpTo(b) # {}}

\* The lines that end the section of the test suite: the end marker at or
\* after a start line.
TestsSectionEnds ==
    {j \in DOMAIN log : is_message(log[j], "MSGBLD0300") /\ TestsStartsUpTo(j) # {}}

\* C29: testsuite_results takes the total and the failed number only from
\* lines at or after the banner line, and the banner counts only at or after
\* the start line of the section: a line read before, a "Total number of
\* tests:" or "Failed" line included, leaves both numbers None; a number
\* that is assigned comes from the line just read; and no line after the
\* line that ends the section is read.
C29_NumbersOnlyAfterBanner ==
    [][TestsStep =>
         LET k == testsuite.i
         IN  /\ TestsBannersUpTo(k) = {} =>
                    /\ testsuite'.total_number_of_tests = None
                    /\ testsuite'.number_of_tests_failed = None
             /\ testsuite'.total_number_of_tests # testsuite.total_number_of_tests
                    => (TestsBannersUpTo(k) # {}
                        /\ is_message(log[k], "Total number of tests:"))
             /\ testsuite'.number_of_tests_failed # testsuite.number_of_tests_failed
                    => (TestsBannersUpTo(k) # {} /\ is_message(log[k], "Failed"))
             /\ \A j \in TestsSectionEnds : k <= j]_vars

\* C29 witness: a finished scan of a log with a "Total number of tests:"
\* line before the start line, a "Failed" line in the section before any
\* banner, and the end line: both numbers are None.
C29_Witness ==
    /\ testsuite.pc = "done"
    /\ log = << <<"Total number of tests:", "42">>, <<"MSGBLD0290">>,
                <<"Failed", "1", "of", "42">>, <<"MSGBLD0300">> >>
    /\ testsuite.total_number_of_tests = None
    /\ testsuite.number_of_tests_failed = None

\* C29 witness: the scan stopped at the end line and left a banner and a
\* "Failed" line after it unread.
C29_WitnessStopsAtEnd ==
    /\ testsuite.pc = "done"
    /\ testsuite.i = 3
    /\ log = << <<"MSGBLD0290">>, <<"MSGBLD0300">>, <<"NEST Testsuite Summary">>,
                <<"Failed", "0", "of", "42">> >>
    /\ testsuite.number_of_tests_failed = None

\* The log holds a line with the start marker s and, at or after it, a line
\* with the end marker e.
PhaseCompleted(s, e) ==
    \E j \in LinesWith(s) : \E k \in LinesWith(e) : j <= k

\* C30: exit code 0 implies that configure, make, make install and the
\* tests each have a start-marker line and, at or after it, an end-marker
\* line in the log.
C30_ZeroMeansPhasesCompleted ==
    main.exit_status = Some(0) =>
        /\ PhaseCompleted("MSGBLD0230", "MSGBLD0240")
        /\ PhaseCompleted("MSGBLD0250", "MSGBLD0260")
        /\ PhaseCompleted("MSGBLD0270", "MSGBLD0280")
        /\ PhaseCompleted("MSGBLD0290", "MSGBLD0300")

ScanFrom(init, n, Line(_, _), AtEnd(_)) ==
    LET after[m \in 0..n] ==
            IF m = 0 THEN init
            ELSE LET st == after[m - 1]
                 IN  IF st.pc # "scan" THEN st
                     ELSE IF st.i > Len(log) THEN AtEnd(st)
                     ELSE [Line(st, log[st.i]) EXCEPT !.i = @ + 1]
    IN  after[n]

\* The return after the last line: of makebuild_summary, of the others.
SeqMakeAtEnd(st) ==
    [st EXCEPT !.pc = "done",
               !.result = Some(MakeResult(None, None, None, None, None))]
SeqAtEnd(st) == [st EXCEPT !.pc = "done"]

\* Each extractor run alone on the log, from its call to its return.
SeqPairLine(st, line) ==
    [st EXCEPT !.pair_found = is_message_pair_line(st.pair_found, line,
                                  st.msg_start_of_section, st.msg_end_of_section)]
SeqPair == ScanFrom(PairInit("MSGBLD0070", "MSGBLD0100"), Len(log) + 1, SeqPairLine, SeqAtEnd)
SeqChangedLine(st, line) ==
    list_of_changed_files_line(st, line, "MSGBLD0070", "MSGBLD0100", "MSGBLD0095")
SeqChanged ==
    IF ~Truthy(SeqPair.pair_found) THEN [ChangedInit EXCEPT !.pc = "done"]
    ELSE ScanFrom([ChangedInit EXCEPT !.pc = "scan"], Len(log) + 1, SeqChangedLine, SeqAtEnd)
SeqVeraLine(st, line) ==
    msg_summary_vera_line(st, line, "MSGBLD0130", "MSGBLD0140", "MSGBLD0135")
SeqVera == ScanFrom(VeraInit, Len(log) + 1, SeqVeraLine, SeqAtEnd)
SeqCppcheckLine(st, line) ==
    msg_summary_cppcheck_line(st, line, "MSGBLD0150", "MSGBLD0160", "MSGBLD0155")
SeqCppcheck == ScanFrom(CppcheckInit, Len(log) + 1, SeqCppcheckLine, SeqAtEnd)
SeqFormatLine(st, line) ==
    msg_summary_format_line(st, line, "MSGBLD0170", "MSGBLD0180", "MSGBLD0175")
SeqFormat == ScanFrom(FormatInit, Len(log) + 1, SeqFormatLine, SeqAtEnd)
SeqPep8Line(st, line) ==
    msg_summary_pep8_line(st, line, "MSGBLD0190", "MSGBLD0200", "MSGBLD0195")
SeqPep8 == ScanFrom(Pep8Init, Len(log) + 1, SeqPep8Line, SeqAtEnd)
SeqMakeLine(st, line) == makebuild_summary_line(st, line, "MSGBLD0250", "MSGBLD0260")
SeqMake == ScanFrom(MakeInit, Len(log) + 1, SeqMakeLine, SeqMakeAtEnd)
SeqTestsLine(st, line) == testsuite_results_line(st, line, "MSGBLD0290", "MSGBLD0300")
SeqTests == ScanFrom(TestsInit, Len(log) + 1, SeqTestsLine, SeqAtEnd)

\* C25: the extractors read the same log with their own cursor and state;
\* in every interleaving of their per-line steps each extractor that has
\* returned holds the result it returns when it runs alone on the log, and
\* the pair scanner called by list_of_changed_files returns its own.
C25_InterleavedIsSequential ==
    /\ pairscan.pc = "done" => pairscan = SeqPair
    /\ changed.pc = "done" => changed = SeqChanged
    /\ vera.pc = "done" => vera = SeqVera
    /\ cppcheck.pc = "done" => cppcheck = SeqCppcheck
    /\ format.pc = "done" => format = SeqFormat
    /\ pep8.pc = "done" => pep8 = SeqPep8
    /\ makebuild.pc = "done" => makebuild = SeqMake
    /\ testsuite.pc \in {"done", "raised"} => testsuite = SeqTests

\* C25 witness: every extractor has returned from the log of a start, an
\* item and an end line, with a changed file, a message of each tool for
\* a.cpp and a failed make.
C25_Witness ==
    /\ log = <<InterleaveStart, InterleaveItem, InterleaveEnd>>
    /\ changed.pc = "done" /\ changed.changed_files = <<"m1">>
    /\ vera.pc = "done" /\ DOMAIN Val(vera.all_vera_msgs)["a.cpp"] # {}
    /\ cppcheck.pc = "done" /\ DOMAIN Val(cppcheck.all_cppcheck_msgs)["a.cpp"] # {}
    /\ format.pc = "done" /\ DOMAIN Val(format.all_format_msgs)["a.cpp"] # {}
    /\ pep8.pc = "done" /\ DOMAIN Val(pep8.all_pep8_msgs)["a.cpp"] # {}
    /\ makebuild.pc = "done" /\ Val(makebuild.result).status = Some(FALSE)
    /\ testsuite.pc = "done"

====
